---- MODULE Spec2Model ----
(***************************************************************************)
(* A model of the attested OHTTP client (microsoft/attested-ohttp-client). *)
(*                                                                         *)
(*   ohttp-client/src/lib.rs       the library: OhttpClientBuilder::build, *)
(*                                 OhttpClient::post / post_raw            *)
(*   ohttp-client-cli/src/main.rs  the CLI driving the library             *)
(*   ohttp-client/src/main.rs      the standalone binary (same pipeline,   *)
(*                                 inlined in main)                        *)
(*                                                                         *)
(* Text (HTTP messages, hex strings, header entries) is modelled by TLA+   *)
(* strings, one character per byte.  The external capabilities (the KMS,   *)
(* the receipt verifier, the HPKE library, the gateway, the file system)   *)
(* are the environment: their answers are chosen nondeterministically.     *)
(* The tracing macros only write to the diagnostic sink and are left out.  *)
(***************************************************************************)
EXTENDS Integers, Sequences, FiniteSets, TLC

(***************************************************************************)
(* Bounds of the model.                                                    *)
(***************************************************************************)
\* longest array of key configurations a KMS answer carries
MaxEntries == 2
\* number of client sessions built in one run
MaxSessions == 2
\* longest list of form fields of a request handed to the multipart builder
MaxFields == 2
\* longest stream of chunks a decapsulated response yields
MaxChunks == 2

(***************************************************************************)
(* Option<T> and Result<T, E>.                                             *)
(***************************************************************************)
None == << >>
Some(x) == << x >>
IsSome(o) == Len(o) = 1
Unwrap(o) == o[1]

Ok(v) == [kind |-> "Ok", val |-> v]
Err(e) == [kind |-> "Err", err |-> e]
Panic(m) == [kind |-> "Panic", msg |-> m]
NoResult == [kind |-> "None"]
IsOk(r) == r.kind = "Ok"
IsErr(r) == r.kind = "Err"
IsPanic(r) == r.kind = "Panic"

\* an external call or wait made by the running operation
Ev(op, arg) == [op |-> op, arg |-> arg]

RECURSIVE CountOp(_, _)
CountOp(s, op) ==
    IF s = << >> THEN 0
    ELSE (IF Head(s).op = op THEN 1 ELSE 0) + CountOp(Tail(s), op)

RECURSIVE CountEv(_, _)
CountEv(s, e) ==
    IF s = << >> THEN 0
    ELSE (IF Head(s) = e THEN 1 ELSE 0) + CountEv(Tail(s), e)

(***************************************************************************)
(* hex::decode, as used by HexArg::from_str and from_kms_config.           *)
(***************************************************************************)
HexDigits == "0123456789abcdef"
HexDigitsUpper == "0123456789ABCDEF"

RECURSIVE IndexIn(_, _, _)
\* 0-based position of the character c in the string s from position i on, -1 if absent
IndexIn(c, s, i) ==
    IF i > Len(s) THEN -1
    ELSE IF SubSeq(s, i, i) = c THEN i - 1
    ELSE IndexIn(c, s, i + 1)

HexVal_lower(c) == IndexIn(c, HexDigits, 1)
\* the value of a hex digit of either case, -1 for any other character
HexVal(c) ==
    IF IndexIn(c, HexDigits, 1) >= 0 THEN IndexIn(c, HexDigits, 1)
    ELSE IndexIn(c, HexDigitsUpper, 1)

RECURSIVE HexDecodeFrom(_, _)
HexDecodeFrom(s, i) ==
    IF i > Len(s) THEN Ok(<< >>)
    ELSE LET hi == HexVal(SubSeq(s, i, i))
             lo == HexVal(SubSeq(s, i + 1, i + 1))
         IN  IF hi < 0 \/ lo < 0 THEN Err("InvalidEncoding")
             ELSE LET rest == HexDecodeFrom(s, i + 2)
                  IN  IF IsOk(rest) THEN Ok(<< hi * 16 + lo >> \o rest.val)
                      ELSE rest

HexDecode(s) ==
    IF Len(s) % 2 # 0 THEN Err("InvalidEncoding")
    ELSE HexDecodeFrom(s, 1)

\* HexArg::from_str: `hex::decode(s).map(HexArg)`
HexArg_from_str(s) == HexDecode(s)

RECURSIVE hex_encode(_)
\* hex::encode: two lower-case digits for every byte
hex_encode(bytes) ==
    IF bytes = << >> THEN ""
    ELSE LET hi == (Head(bytes) \div 16) + 1
             lo == (Head(bytes) % 16) + 1
         IN  SubSeq(HexDigits, hi, hi) \o SubSeq(HexDigits, lo, lo)
                 \o hex_encode(Tail(bytes))

(***************************************************************************)
(* The environment.                                                        *)
(***************************************************************************)
\* fs::read_to_string(kms_cert): the certificate files of the model
CertPaths == {"ca.pem", "junk.pem", "missing.pem"}
read_to_string(path) ==
    IF path = "ca.pem" THEN Ok("CA-A")
    ELSE IF path = "junk.pem" THEN Ok("not a certificate")
    ELSE Err("CertificateReadError")

\* reqwest::Certificate::from_pem(cert): whether the text is a PEM certificate
from_pem_ok(crt) == crt = "CA-A"

\* verifier::verify(receipt, cert): a receipt names the authority that issued it
verify(receipt, crt) ==
    IF receipt = crt THEN Ok("evidence") ELSE Err("ReceiptVerificationFailed")

\* ohttp::ClientRequest::from_encoded_config: a key configuration is one byte,
\* its key id; the ids below 128 are those the HPKE library supports
SupportedConfig(b) == b < 128
from_encoded_config(bytes) ==
    IF Len(bytes) = 1 /\ SupportedConfig(bytes[1]) THEN Ok([key |-> bytes[1]])
    ELSE Err("UnsupportedConfiguration")

RECURSIVE from_encoded_config_list(_)
\* ohttp::ClientRequest::from_encoded_config_list: the first supported
\* configuration of the encoded list
from_encoded_config_list(bytes) ==
    IF bytes = << >> THEN Err("UnsupportedConfiguration")
    ELSE IF SupportedConfig(Head(bytes)) THEN Ok([key |-> Head(bytes)])
    ELSE from_encoded_config_list(Tail(bytes))

\* the entries a KMS answer may carry: {publicKey, receipt}
KmsKeyConfiguration ==
    { [key_config |-> "0a", receipt |-> "CA-A"],
      [key_config |-> "0B", receipt |-> "CA-X"],
      [key_config |-> "zz", receipt |-> "CA-A"],
      [key_config |-> "zz", receipt |-> "CA-X"],
      [key_config |-> "ff", receipt |-> "CA-A"] }

RECURSIVE SeqsUpTo(_, _)
\* the sequences over S of length at most n
SeqsUpTo(S, n) ==
    IF n = 0 THEN { << >> }
    ELSE LET shorter == SeqsUpTo(S, n - 1)
         IN  shorter \cup { Append(q, x) : q \in shorter, x \in S }

\* a response body: text that is no JSON, or the JSON array of the entries
TextBody(t) == [json |-> FALSE, text |-> t, entries |-> << >>]
JsonBody(es) == [json |-> TRUE, text |-> "[..]", entries |-> es]
KmsBodies ==
    { TextBody(""), TextBody("oops") }
        \cup { JsonBody(es) : es \in SeqsUpTo(KmsKeyConfiguration, MaxEntries) }

\* what one GET {kms_url}/listpubkeys can meet: status 0 stands for a transport
\* failure (no response); readable tells whether the body can be read
KmsResponses ==
    { [status |-> s, readable |-> TRUE, body |-> TextBody("")] : s \in {0, 202, 204, 500} }
        \cup { [status |-> 200, readable |-> TRUE, body |-> b] : b \in KmsBodies }
        \cup { [status |-> 200, readable |-> FALSE, body |-> TextBody("")] }

\* the answers of the KMS in the runs that go on to send requests
FewKmsResponses ==
    { [status |-> s, readable |-> TRUE, body |-> TextBody("")] : s \in {202, 500} }
        \cup { [status |-> 200, readable |-> TRUE,
                body |-> JsonBody(<< [key_config |-> "0B", receipt |-> "CA-X"],
                                     [key_config |-> "0a", receipt |-> "CA-A"] >>)] }

\* the answers of the KMS in the runs of the library that go on to post: the
\* key configuration is ready at the first GET, or the KMS fails
ReadyKmsResponses == { r \in FewKmsResponses : r.status # 202 }

(***************************************************************************)
(* The key-configuration provider (lib.rs 165-260; main.rs 232-324).       *)
(***************************************************************************)
max_retries == 3

error_for_status_never(status) == FALSE
\* reqwest's error_for_status: 4xx and 5xx are errors
error_for_status(status) == status >= 400 /\ status <= 599

\* `retries += 1`
NextRetries(r) == r + 1

RetryAllowed_le(r) == r <= max_retries
\* `if retries < max_retries`
RetryAllowed(r) == r < max_retries

\* One iteration of the loop of get_kms_config on the answer resp with the
\* counter at r: the new counter, whether it sleeps, and how the loop goes on:
\* "again", or "return" with the function's result.
get_kms_config_step(resp, r) ==
    IF resp.status = 0 \/ error_for_status(resp.status)
    THEN [retries |-> r, sleep |-> FALSE, next |-> "return", res |-> Err("KmsRequestError")]
    ELSE IF resp.status = 202
    THEN IF RetryAllowed(r)
         THEN [retries |-> NextRetries(r), sleep |-> TRUE, next |-> "again", res |-> NoResult]
         ELSE [retries |-> r, sleep |-> FALSE, next |-> "return", res |-> Err("KmsTimeout")]
    ELSE IF resp.status = 200
    THEN IF ~resp.readable
         THEN [retries |-> r, sleep |-> FALSE, next |-> "return", res |-> Err("KmsRequestError")]
         ELSE IF ~resp.body.json /\ Len(resp.body.text) = 0
         THEN [retries |-> r, sleep |-> FALSE, next |-> "return",
               res |-> Panic("assertion failed: !body.is_empty()")]
         ELSE [retries |-> r, sleep |-> FALSE, next |-> "return", res |-> Ok(resp.body)]
    ELSE [retries |-> r, sleep |-> FALSE, next |-> "return",
          res |-> [kind |-> "Err", err |-> "KmsUnexpectedStatus", code |-> resp.status]]

SelectEntry_first(entries) == 1
\* `kms_configs.pop()`: the position of the entry taken, the last one
SelectEntry(entries) == Len(entries)

VerifyGate_ignored(v) == FALSE
\* `verifier::verify(..)?`: a failed verification ends from_kms_config
VerifyGate(v) == IsErr(v)

from_kms_config_decode_first(body, crt) ==
    IF ~body.json
    THEN [res |-> Err("KmsConfigParseError"), trace |-> << >>]
    ELSE IF body.entries = << >>
    THEN [res |-> Err("NoKmsConfiguration"), trace |-> << >>]
    ELSE LET n == SelectEntry(body.entries)
             kms_config == body.entries[n]
             v == verify(kms_config.receipt, crt)
             d == HexDecode(kms_config.key_config)
         IN  IF IsErr(d)
             THEN [res |-> d, trace |-> << Ev("hex_decode", n) >>]
             ELSE IF VerifyGate(v)
             THEN [res |-> v, trace |-> << Ev("hex_decode", n), Ev("verify", n) >>]
             ELSE [res |-> from_encoded_config(d.val),
                   trace |-> << Ev("hex_decode", n), Ev("verify", n),
                                Ev("from_encoded_config", n) >>]

\* ClientRequest::from_kms_config(config, cert): the result and the calls made
from_kms_config(body, crt) ==
    IF ~body.json
    THEN [res |-> Err("KmsConfigParseError"), trace |-> << >>]
    ELSE IF body.entries = << >>
    THEN [res |-> Err("NoKmsConfiguration"), trace |-> << >>]
    ELSE LET n == SelectEntry(body.entries)
             kms_config == body.entries[n]
             v == verify(kms_config.receipt, crt)
             d == HexDecode(kms_config.key_config)
         IN  IF VerifyGate(v)
             THEN [res |-> v, trace |-> << Ev("verify", n) >>]
             ELSE IF IsErr(d)
             THEN [res |-> d, trace |-> << Ev("verify", n), Ev("hex_decode", n) >>]
             ELSE [res |-> from_encoded_config(d.val),
                   trace |-> << Ev("verify", n), Ev("hex_decode", n),
                                Ev("from_encoded_config", n) >>]

\* create_request_from_encoded_config_list of the library
create_request_from_encoded_config_list(config) ==
    IF ~IsSome(config) THEN Err("MissingConfiguration")
    ELSE from_encoded_config_list(Unwrap(config))

\* create_request_from_encoded_config_list of the standalone binary:
\* `config.clone().expect("Config expected.")`
bin_create_request_from_encoded_config_list(config) ==
    IF ~IsSome(config) THEN Panic("Config expected.")
    ELSE from_encoded_config_list(Unwrap(config))

(***************************************************************************)
(* Text helpers: str::split_once, str::starts_with, `{}` of a usize.       *)
(***************************************************************************)
\* the first position at or after i where pat occurs in s, 0 if nowhere
FindSub(s, pat, i) ==
    LET hits == { k \in i..(Len(s) - Len(pat) + 1) : SubSeq(s, k, k + Len(pat) - 1) = pat }
    IN  IF hits = {} THEN 0 ELSE CHOOSE k \in hits : \A j \in hits : k <= j

\* str::split_once(delimiter): None, or Some of the text before and after the
\* first delimiter
split_once(s, c) ==
    LET i == FindSub(s, c, 1)
    IN  IF i = 0 THEN None
        ELSE Some(<< SubSeq(s, 1, i - 1), SubSeq(s, i + Len(c), Len(s)) >>)

starts_with(s, prefix) ==
    Len(s) >= Len(prefix) /\ SubSeq(s, 1, Len(prefix)) = prefix

Digit(d) == SubSeq("0123456789", d + 1, d + 1)

RECURSIVE ToDecimal(_)
\* the decimal text of a number, as `{}` writes it
ToDecimal(n) ==
    IF n < 10 THEN Digit(n) ELSE ToDecimal(n \div 10) \o Digit(n % 10)

(***************************************************************************)
(* The multipart request builder (lib.rs 42-148; main.rs 91-209).          *)
(***************************************************************************)
\* File::open(filename) and read_to_end: the files of the model
File_open(filename) ==
    IF filename = "img.png" THEN Ok(".PNG....")
    ELSE IF filename = "doc.pdf" THEN Ok("%PDF-1.7 x")
    ELSE IF filename = "notes.txt" THEN Ok("plain words")
    ELSE Err("FileAccessError")

\* infer::get(&file_contents): the type sniffed from the leading bytes, None
\* when no known signature matches
infer_get(contents) ==
    IF starts_with(contents, ".PNG") THEN Some("image/png")
    ELSE IF starts_with(contents, "%PDF") THEN Some("application/pdf")
    ELSE None

\* write_post_request_line
write_post_request_line(request, target_path) ==
    request \o "POST " \o target_path \o " HTTP/1.1\r\n"

RECURSIVE append_header_lines_reversed(_, _, _)
RECURSIVE append_header_lines(_, _, _)
append_header_lines_reversed(request, headers, i) ==
    IF i > Len(headers) THEN request
    ELSE append_header_lines_reversed(request, headers, i + 1) \o headers[i] \o "\r\n"

append_header_lines(request, headers, i) ==
    IF i > Len(headers) THEN request
    ELSE append_header_lines(request \o headers[i] \o "\r\n", headers, i + 1)

\* append_headers(request, headers): every header and a line end, in order
append_headers(request, headers) ==
    IF IsSome(headers) THEN append_header_lines(request, Unwrap(headers), 1)
    ELSE request

\* the part written for a field whose value is @filename
FilePart(boundary, filename, mime_type, file_contents) ==
    "--" \o boundary
        \o "\r\nContent-Disposition: form-data; name=\"file\"; filename=\""
        \o filename \o "\"\r\nContent-Type: " \o mime_type \o "\r\n\r\n"
        \o file_contents

\* the part written for a plain field
FieldPart(name, value) ==
    "\r\nContent-Disposition: form-data; name=\"" \o name \o "\"\r\n\r\n" \o value

\* written after every field
FieldEnd(boundary) == "\r\n--" \o boundary \o "--\r\n"

RECURSIVE multipart_fields(_, _, _, _)
\* the loop `for field in fields` of create_multipart_body, from field i on
multipart_fields(body, fields, i, boundary) ==
    IF i > Len(fields) THEN Ok(body)
    ELSE LET sp == split_once(fields[i], "=")
         IN  IF ~IsSome(sp) THEN Panic("called Option::unwrap() on a None value")
             ELSE LET name == Unwrap(sp)[1]
                      value == Unwrap(sp)[2]
                      filename == SubSeq(value, 2, Len(value))
                      file == File_open(filename)
                      kind == infer_get(file.val)
                  IN  IF starts_with(value, "@")
                      THEN IF IsErr(file) THEN file
                           ELSE IF ~IsSome(kind) THEN Panic("file type is unknown")
                           ELSE multipart_fields(
                                    body \o FilePart(boundary, filename, Unwrap(kind), file.val)
                                         \o FieldEnd(boundary),
                                    fields, i + 1, boundary)
                      ELSE multipart_fields(
                               body \o FieldPart(name, value) \o FieldEnd(boundary),
                               fields, i + 1, boundary)

\* create_multipart_body(data, fields, boundary) of the library
create_multipart_body(data, fields, boundary) ==
    LET body == IF IsSome(data) THEN Unwrap(data) ELSE ""
    IN  IF ~IsSome(fields) THEN Ok(body)
        ELSE multipart_fields(body, Unwrap(fields), 1, boundary)

\* create_multipart_body(fields, boundary) of the standalone binary
bin_create_multipart_body(fields, boundary) ==
    IF ~IsSome(fields) THEN Ok("")
    ELSE multipart_fields("", Unwrap(fields), 1, boundary)

append_multipart_headers_plus_crlf(request, boundary, body_len) ==
    request \o "Content-Type: multipart/form-data; boundary=" \o boundary \o "\r\n"
        \o "Content-Length: " \o ToDecimal(body_len + 2) \o "\r\n"
        \o "\r\n"
\* append_multipart_headers(request, boundary, body_len)
append_multipart_headers(request, boundary, body_len) ==
    request \o "Content-Type: multipart/form-data; boundary=" \o boundary \o "\r\n"
        \o "Content-Length: " \o ToDecimal(body_len) \o "\r\n"
        \o "\r\n"

\* the request line, the caller's headers, then the multipart headers and the
\* body once the body is built
AssembleRequest(target_path, headers, boundary, body) ==
    IF ~IsOk(body) THEN body
    ELSE Ok(append_multipart_headers(
                append_headers(write_post_request_line("", target_path), headers),
                boundary, Len(body.val))
            \o body.val)

\* create_multipart_request of the library; the boundary is the random token
create_multipart_request(target_path, headers, data, fields, boundary) ==
    AssembleRequest(target_path, headers, boundary,
                    create_multipart_body(data, fields, boundary))

\* the fixed boundary of the standalone binary
BinBoundary == "----ConfidentialInferencingFormBoundary7MA4YWxkTrZu0gW"

\* create_multipart_request of the standalone binary
bin_create_multipart_request(target_path, headers, fields) ==
    AssembleRequest(target_path, headers, BinBoundary,
                    bin_create_multipart_body(fields, BinBoundary))

(***************************************************************************)
(* The binary request converter (lib.rs 150-163, 395-399; main.rs 211-230) *)
(* over bhttp's Message::read_http and write_bhttp.                        *)
(***************************************************************************)
RECURSIVE ParseDecimal(_, _, _)
\* the number a decimal text denotes, -1 when a character is no digit
ParseDecimal(s, i, acc) ==
    IF i > Len(s) THEN acc
    ELSE LET d == IndexIn(SubSeq(s, i, i), "0123456789", 1)
         IN  IF d < 0 THEN -1 ELSE ParseDecimal(s, i + 1, acc * 10 + d)

RECURSIVE TrimLeft(_)
TrimLeft(s) == IF starts_with(s, " ") THEN TrimLeft(SubSeq(s, 2, Len(s))) ELSE s

RECURSIVE read_header_lines(_, _, _)
\* the header lines from position i to the blank line: the (name, value) pairs
\* and the position after the blank line
read_header_lines(text, i, acc) ==
    LET e == FindSub(text, "\r\n", i)
        line == SubSeq(text, i, e - 1)
        nv == split_once(line, ":")
    IN  IF e = 0 THEN Err("MalformedMessage")
        ELSE IF line = "" THEN Ok([headers |-> acc, content_at |-> e + 2])
        ELSE IF ~IsSome(nv) THEN Err("MalformedMessage")
        ELSE read_header_lines(text, e + 2,
                 Append(acc, << Unwrap(nv)[1], TrimLeft(Unwrap(nv)[2]) >>))

RECURSIVE HeaderValues(_, _)
\* the values of the headers called name, in order
HeaderValues(headers, name) ==
    IF headers = << >> THEN << >>
    ELSE (IF Head(headers)[1] = name THEN << Head(headers)[2] >> ELSE << >>)
             \o HeaderValues(Tail(headers), name)

\* Message::read_http: the request line, the header lines, and the content the
\* Content-Length header announces (everything left when there is none)
read_http(text) ==
    LET e == FindSub(text, "\r\n", 1)
        line == SubSeq(text, 1, e - 1)
        a == split_once(line, " ")
        b == split_once(Unwrap(a)[2], " ")
        h == read_header_lines(text, e + 2, << >>)
        cl == HeaderValues(h.val.headers, "Content-Length")
        n == ParseDecimal(cl[1], 1, 0)
        rest == SubSeq(text, h.val.content_at, Len(text))
    IN  IF e = 0 \/ ~IsSome(a) THEN Err("MalformedMessage")
        ELSE IF ~IsSome(b) THEN Err("MalformedMessage")
        ELSE IF IsErr(h) THEN h
        ELSE IF cl # << >> /\ (n < 0 \/ n > Len(rest)) THEN Err("MalformedMessage")
        ELSE Ok([method |-> Unwrap(a)[1],
                 target |-> Unwrap(b)[1],
                 header |-> h.val.headers,
                 content |-> IF cl = << >> THEN rest ELSE SubSeq(rest, 1, n)])

\* Message::write_bhttp(mode): the binary message, kept structured
write_bhttp(mode, message) == [mode |-> mode, message |-> message]

\* the textual request to its binary form: read_http, write_bhttp(KnownLength)
to_bhttp(request) ==
    LET message == read_http(request.val)
    IN  IF ~IsOk(request) THEN request
        ELSE IF IsErr(message) THEN message
        ELSE Ok(write_bhttp("KnownLength", message.val))

\* create_request_buffer of the library
create_request_buffer(target_path, headers, data, form_fields, boundary) ==
    to_bhttp(create_multipart_request(target_path, headers, data, form_fields, boundary))

post_raw_request_buf_via_builder(http_request) ==
    create_request_buffer("/", None, Some(http_request), None, "----boundary")
\* the first statements of post_raw: `Message::read_http(&mut cursor)?` on the
\* caller's bytes and `request.write_bhttp(Mode::KnownLength, &mut request_buf)?`
post_raw_request_buf(http_request) == to_bhttp(Ok(http_request))

\* the printable characters from ' ' (32) to '_' (95) and from 'a' (97) to '~' (126)
AsciiLow == " !\"#$%&'()*+,-./0123456789:;<=>?@ABCDEFGHIJKLMNOPQRSTUVWXYZ[\\]^_"
AsciiHigh == "abcdefghijklmnopqrstuvwxyz{|}~"

\* the byte of a character of a text, -1 for one outside the two tables
ByteOf(c) ==
    IF IndexIn(c, AsciiLow, 1) >= 0 THEN 32 + IndexIn(c, AsciiLow, 1)
    ELSE IF IndexIn(c, AsciiHigh, 1) >= 0 THEN 97 + IndexIn(c, AsciiHigh, 1)
    ELSE -1

\* Message::read_bhttp on a buffer: the message opens with its framing
\* indicator, a variable-length integer whose length the two high bits of the
\* first byte give; only the indicators 0..3 are known
read_bhttp(text) ==
    LET b0 == ByteOf(SubSeq(text, 1, 1))
        b1 == ByteOf(SubSeq(text, 2, 2))
        indicator == IF b0 \div 64 = 0 THEN b0
                     ELSE IF b0 \div 64 = 1 THEN (b0 % 64) * 256 + b1
                     ELSE 4
    IN  IF Len(text) = 0 \/ b0 < 0 THEN Err("MalformedMessage")
        ELSE IF b0 \div 64 = 1 /\ (Len(text) < 2 \/ b1 < 0) THEN Err("MalformedMessage")
        ELSE IF indicator > 3 THEN Err("MalformedMessage")
        ELSE Ok([framing |-> indicator, rest |-> SubSeq(text, 2, Len(text))])

\* create_request_buffer of the standalone binary: read_bhttp when is_bhttp
bin_create_request_buffer(is_bhttp, target_path, headers, form_fields) ==
    LET made == bin_create_multipart_request(target_path, headers, form_fields)
        message == IF is_bhttp THEN read_bhttp(made.val) ELSE read_http(made.val)
    IN  IF ~IsOk(made) THEN made
        ELSE IF IsErr(message) THEN message
        ELSE Ok(write_bhttp("KnownLength", message.val))

(***************************************************************************)
(* The outer transport adapter (lib.rs 273-309; main.rs 326-376).          *)
(***************************************************************************)
RECURSIVE outer_header_pairs(_, _, _)
\* the loop over outer_headers of post_request: `split_once(':').unwrap()`
outer_header_pairs(headers, i, acc) ==
    IF i > Len(headers) THEN Ok(acc)
    ELSE LET kv == split_once(headers[i], ":")
         IN  IF ~IsSome(kv) THEN Panic("called Option::unwrap() on a None value")
             ELSE outer_header_pairs(headers, i + 1, Append(acc, Unwrap(kv)))

\* post_request up to `send()`: the client, then the headers of the outer POST
post_request_builder(url, outer_headers, enc_request, client_ok) ==
    LET first == << << "content-type", "message/ohttp-chunked-req" >> >>
        hs == IF IsSome(outer_headers)
              THEN outer_header_pairs(Unwrap(outer_headers), 1, first)
              ELSE Ok(first)
    IN  IF ~client_ok THEN Err("TransportError")
        ELSE IF ~IsOk(hs) THEN hs
        ELSE Ok([url |-> url, headers |-> hs.val, body |-> enc_request])

post_request_result_lenient(response) == Ok(response)
post_request_result_strict(response) ==
    IF response.status = 0 THEN Err("TransportError")
    ELSE IF response.status >= 200 /\ response.status <= 299 THEN Ok(response)
    ELSE Err("TransportError")
\* post_request of the library after `send().await`: any response is Ok
post_request_result(response) ==
    IF response.status = 0 THEN Err("TransportError") ELSE Ok(response)

bin_post_request_result_any(response) ==
    IF response.status = 0 THEN Err("TransportError") ELSE Ok(response)
\* post_request of the standalone binary after `send().await`: a response that
\* is no success is an error
bin_post_request_result(response) ==
    IF response.status = 0 THEN Err("TransportError")
    ELSE IF response.status >= 200 /\ response.status <= 299 THEN Ok(response)
    ELSE Err("HttpStatusError")

RECURSIVE into_iter_values(_, _, _)
\* the values of one name in HeaderMap's consuming iterator, from value i on:
\* the name comes with the first value only, None with the values after it
into_iter_values(name, values, i) ==
    IF i > Len(values) THEN << >>
    ELSE << << IF i = 1 THEN Some(name) ELSE None, values[i] >> >>
             \o into_iter_values(name, values, i + 1)

RECURSIVE into_iter(_)
\* `for (key, value) in headers`: HeaderMap::into_iter, a map being a sequence
\* of names each with its values
into_iter(headers) ==
    IF headers = << >> THEN << >>
    ELSE into_iter_values(Head(headers)[1], Head(headers)[2], 1) \o into_iter(Tail(headers))

RECURSIVE builder_header(_, _, _)
\* Builder::header(key, value): the value is appended to the values of the name
builder_header(headers, key, value) ==
    IF headers = << >> THEN << << key, << value >> >> >>
    ELSE IF Head(headers)[1] = key
    THEN << << key, Append(Head(headers)[2], value) >> >> \o Tail(headers)
    ELSE << Head(headers) >> \o builder_header(Tail(headers), key, value)

\* one turn of the loop of decapsulate_response: `if let Some(key) = key`
copy_header(built, item) ==
    IF IsSome(item[1]) THEN builder_header(built, Unwrap(item[1]), item[2]) ELSE built

RECURSIVE copy_headers(_, _)
\* the loop of decapsulate_response over the items of into_iter
copy_headers(items, built) ==
    IF items = << >> THEN built
    ELSE copy_headers(Tail(items), copy_header(built, Head(items)))

\* Response::chunk on the outer response: the next item of its body, Ok(None)
\* once the body is at its end
chunk(response) ==
    IF response.pulls < Len(response.chunks) THEN response.chunks[response.pulls + 1]
    ELSE Ok(None)

unfold_step_propagate(item) ==
    IF IsOk(item) /\ IsSome(item.val) THEN Some(Ok(Unwrap(item.val)))
    ELSE IF IsErr(item) THEN Some(item)
    ELSE None

\* the closure handed to unfold: `Ok(Some(chunk)) => Some((Ok(chunk.to_vec()), response)),
\* _ => None`
unfold_step(item) ==
    IF IsOk(item) /\ IsSome(item.val) THEN Some(Ok(Unwrap(item.val))) ELSE None

\* decapsulate_response: the wrapper carries the status of the outer response
\* and the headers its loop copied; its body is the stream decapsulated with
\* client_response
decapsulate_response(response, client_response) ==
    Ok([status |-> response.status,
        headers |-> copy_headers(into_iter(response.headers), << >>),
        answers |-> response.answers,
        context |-> client_response])

\* File::create(outfile): the paths of the model
OutputPaths == { "out.bin", "/nodir/out.bin" }
File_create(outfile) == IF outfile = "out.bin" THEN Ok("") ELSE Err("FileAccessError")

RECURSIVE write_chunks(_, _, _)
\* the loop of handle_response over the decapsulated stream from item i on: a
\* line feed and the chunk for every Ok item, nothing for an Err item
write_chunks(out, stream, i) ==
    IF i > Len(stream) THEN out
    ELSE IF IsOk(stream[i]) THEN write_chunks(out \o "\n" \o stream[i].val, stream, i + 1)
    ELSE write_chunks(out, stream, i + 1)

\* handle_response of the standalone binary: the sink is the file created at
\* `output`, or standard output; what it returns and what is written then
handle_response(stream, output, before) ==
    LET file == File_create(Unwrap(output))
    IN  IF IsSome(output)
        THEN IF IsErr(file) THEN [res |-> file, written |-> before]
             ELSE [res |-> Ok("unit"),
                   written |-> [before EXCEPT !.file = Some(write_chunks("", stream, 1))]]
        ELSE [res |-> Ok("unit"),
              written |-> [before EXCEPT !.stdout = write_chunks(@, stream, 1)]]

RECURSIVE cli_print_chunks(_, _, _)
\* the loop of main of ohttp-client-cli over the body of the response from
\* item i on: `while let Some(chunk) = response.chunk().await? { let chunk =
\* str::from_utf8(&chunk)?; println!("{chunk}"); }`; the chunks are UTF-8 texts
cli_print_chunks(out, stream, i) ==
    IF i > Len(stream) THEN [res |-> Ok("unit"), stdout |-> out]
    ELSE IF IsErr(stream[i]) THEN [res |-> stream[i], stdout |-> out]
    ELSE cli_print_chunks(out \o stream[i].val \o "\n", stream, i + 1)

\* main of ohttp-client-cli on the response post returned: the body is printed
\* when `status.is_success()`, else the status is logged; then `Ok(())`
cli_read_response(status, stream, before) ==
    LET printed == cli_print_chunks(before.stdout, stream, 1)
    IN  IF status >= 200 /\ status <= 299
        THEN [res |-> printed.res, written |-> [before EXCEPT !.stdout = printed.stdout]]
        ELSE [res |-> Ok("unit"), written |-> before]

(***************************************************************************)
(* The state.                                                              *)
(***************************************************************************)
VARIABLES
    program,     \* "lib": the library under a caller; "bin": the standalone binary;
                 \* "cli": ohttp-client-cli
    pc,          \* where the running operation is suspended: "idle" between the
                 \* calls of the library, "polling", "have_config", "sending";
                 \* "have_request" in main of the binary once the provider
                 \* returned, "exited" after main returned, "aborted" after a panic
    op,          \* the operation that runs or ran last: "build", "post", "post_raw",
                 \* "main" of the binary, "create_multipart_request"
    builder,     \* kms_url, kms_cert, config of OhttpClientBuilder (of Args in the binary)
    path,        \* the provider path build took: "kms" or "static"
    cert,        \* the text of the certificate file
    retries,     \* the counter of get_kms_config
    kms_config,  \* the body get_kms_config returned
    answer,      \* the answer of the KMS to the last GET
    calls,       \* the external calls and waits of the operation, in order
    result,      \* what the operation returned
    sessions,    \* the OhttpClient values built so far
    self,        \* the session post / post_raw was called on
    args,        \* the arguments of the operation, and how its capabilities fare
    outer,       \* the outer POST being sent
    contexts,    \* the response contexts encapsulate returned
    request,     \* `request` of create_multipart_request: the message written so far
    body,        \* `body` of create_multipart_request: None until it is created
    written,     \* what the standalone binary wrote to standard output and to its output file
    upstream,    \* the outer response decapsulate_response reads: status, headers,
                 \* the items of its body and how many of them were pulled
    wrapper,     \* the builder of decapsulate_response: status, headers, and the
                 \* items of the header loop still to come
    fed,         \* what the stream made by unfold yielded, and whether it ended
    hexarg,      \* the string handed to HexArg::from_str, what it returned, and the
                 \* hex text of the bytes once they are encoded again
    plain,       \* the items of the decapsulated stream of the response a program reads
    waited,      \* whether an earlier call of get_kms_config was answered 202
    py_response, \* the Response behind the Mutex of an OhttpResponse of the binding
    guard,       \* the method call that holds the MutexGuard of that Response, 0 for none
    py_calls,    \* the method calls made on the OhttpResponse, each with its position
                 \* and what it returned
    py_posts     \* the futures of post / post_raw of the binding's OhttpClient, each
                 \* with its position, its locals and what it returned

provider_vars == << builder, path, cert, retries, kms_config, answer >>
post_vars == << self, args, outer >>
multipart_vars == << request, body >>
adapter_vars == << upstream, wrapper, fed >>
binding_vars == << py_response, guard, py_calls, py_posts >>
vars == << program, pc, op, provider_vars, calls, result, sessions, post_vars, contexts,
           multipart_vars, written, adapter_vars, hexarg, plain, waited, binding_vars >>

\* the static configurations a caller passes (HexArg, already decoded)
StaticConfigs == { None, Some(<< 255, 11 >>), Some(<< 255 >>) }
KmsUrls == { None, Some("https://kms") }
KmsCerts == { None } \cup { Some(p) : p \in CertPaths }
\* the certificates in the runs that go on to send requests
FewKmsCerts == { None, Some("ca.pem"), Some("missing.pem") }

\* the inner requests a caller asks for: headers, data, form_fields
RequestSpecs ==
    { [headers |-> None, data |-> Some(""), form_fields |-> None],
      [headers |-> Some(<< "X-Trace: 1", "Accept: application/json" >>), data |-> Some(""),
       form_fields |-> Some(<< "name=value", "file=@img.png" >>)],
      [headers |-> None, data |-> None, form_fields |-> Some(<< "file=@gone.bin" >>)],
      [headers |-> None, data |-> None,
       form_fields |-> Some(<< "name=value", "file=@notes.txt" >>)],
      [headers |-> Some(<< "NoColon" >>), data |-> None, form_fields |-> None] }

\* the messages a caller hands to post_raw
RawRequests == { "POST /score HTTP/1.1\r\nHost: target\r\n\r\n", "not http" }

OuterHeaders ==
    { None,
      Some(<< "X-Trace: 1", "Authorization: Bearer abc" >>),
      Some(<< "Authorization: Bearer abc", "NoColonHere" >>) }

\* the random boundary of create_multipart_request: "----" and 32 alphanumerics
Boundary32 == "----0123456789abcdefghijABCDEFGHIJ01"

GatewayUrl == "https://gateway/score"

\* what the outer POST can meet: status 0 stands for no response at all
OuterStatuses == {0, 200, 404}
\* what the outer POST of the standalone binary can meet
BinOuterStatuses == OuterStatuses \cup {204, 304, 500}
ResponseHeaders == << << "content-type", << "message/ohttp-chunked-res" >> >> >>

\* the arguments of the standalone binary: headers and form_fields
BinRequestSpecs ==
    { [headers |-> None, form_fields |-> None],
      [headers |-> Some(<< "Accept: application/json" >>),
       form_fields |-> Some(<< "name=value", "file=@img.png" >>)],
      [headers |-> None, form_fields |-> Some(<< "file=@notes.txt" >>)] }

BinOuterHeaders == { None, Some(<< "Authorization: Bearer abc", "NoColonHere" >>) }
Outputs == { None } \cup { Some(o) : o \in OutputPaths }

\* the streams decapsulate_stream yields: chunks and errors
ChunkStreams == SeqsUpTo({ Ok("chunk"), Ok(""), Err("DecapsulationError") }, MaxChunks)

NoBuilder == [kms_url |-> None, kms_cert |-> None, config |-> None]
NoArgs == [outer_headers |-> None, fate |-> "none"]
NoAnswer == [status |-> -1, readable |-> FALSE, body |-> TextBody("")]
NoOuter == [url |-> "", headers |-> << >>, body |-> 0]
NoOutput == [stdout |-> "", file |-> None]
NoUpstream == [status |-> 0, headers |-> << >>, chunks |-> << >>, pulls |-> 0]
NoWrapper == [status |-> 0, headers |-> << >>, todo |-> << >>]
NoFed == [items |-> << >>, ended |-> FALSE]
NoHexArg == [s |-> "", parsed |-> NoResult, encoded |-> None]

Init ==
    /\ program = "lib"
    /\ pc = "idle"
    /\ op = "none"
    /\ builder = NoBuilder
    /\ path = "none"
    /\ cert = ""
    /\ retries = 0
    /\ kms_config = TextBody("")
    /\ answer = NoAnswer
    /\ calls = << >>
    /\ result = NoResult
    /\ sessions = << >>
    /\ self = 0
    /\ args = NoArgs
    /\ outer = NoOuter
    /\ contexts = << >>
    /\ request = ""
    /\ body = None
    /\ written = NoOutput
    /\ plain = << >>
    /\ waited = FALSE
    /\ py_response = NoUpstream
    /\ guard = 0
    /\ py_calls = << >>
    /\ py_posts = << >>
    /\ upstream = NoUpstream
    /\ wrapper = NoWrapper
    /\ fed = NoFed
    /\ hexarg = NoHexArg

\* OhttpClient { ohttp_request }, with the provider path its key came by
NewSession(ohttp_request, via) ==
    [key |-> ohttp_request.key, via |-> via, state |-> "live", encapsulated |-> 0]

\* the operation returns r (or panics with it) after the calls cs
Finish(r, cs) ==
    /\ result' = r
    /\ calls' = cs
    /\ pc' = IF IsPanic(r) THEN "aborted"
             ELSE IF program = "lib" THEN "idle"
             ELSE "exited"

\* the provider ends with its result after the calls cs: build returns
\* Ok(OhttpClient { ohttp_request }) or the error; main of the binary goes on
\* with the ClientRequest or returns the error
FinishBuild(r, cs, via) ==
    /\ result' = r
    /\ calls' = cs
    /\ pc' = IF IsPanic(r) THEN "aborted"
             ELSE IF program = "lib" THEN "idle"
             ELSE IF IsOk(r) THEN "have_request"
             ELSE "exited"
    /\ sessions' = IF IsOk(r) THEN Append(sessions, NewSession(r.val, via)) ELSE sessions

(***************************************************************************)
(* OhttpClientBuilder::build (lib.rs 462-481), down to the first GET of    *)
(* get_kms_config on the KMS path.                                         *)
(***************************************************************************)
UseKms_never(kms_url, kms_cert) == FALSE
\* `if let (Some(kms_url), Some(kms_cert)) = (self.kms_url, self.kms_cert)`
UseKms(kms_url, kms_cert) == IsSome(kms_url) /\ IsSome(kms_cert)

\* the choice of the provider path (lib.rs 464-468, main.rs 451-455) and the
\* path taken down to its first suspension: create_request_from_kms_config up
\* to the first GET, or the static path, whose result is from_list
CreateRequest(kms_url, kms_cert, config, from_list) ==
    IF UseKms(kms_url, kms_cert)
    THEN \* create_request_from_kms_config
         LET rd == read_to_string(Unwrap(kms_cert))
             cs == << Ev("read_cert", 0) >>
         IN  /\ path' = "kms"
             /\ IF IsErr(rd)
                THEN cert' = "" /\ FinishBuild(rd, cs, "kms")
                ELSE IF ~from_pem_ok(rd.val)
                THEN cert' = rd.val /\ FinishBuild(Err("KmsRequestError"), cs, "kms")
                ELSE /\ cert' = rd.val
                     /\ calls' = cs
                     /\ pc' = "polling"
                     /\ result' = NoResult
                     /\ UNCHANGED sessions
    ELSE /\ path' = "static"
         /\ cert' = ""
         /\ FinishBuild(from_list,
                        IF IsSome(config) THEN << Ev("from_encoded_config_list", 0) >>
                        ELSE << >>,
                        "static")

retries_kept == retries
\* `let mut retries = 0;`: the counter of get_kms_config when a call begins
retries_at_start == 0

Build(kms_url, kms_cert, config) ==
    /\ program = "lib"
    /\ pc = "idle"
    /\ Len(sessions) < MaxSessions
    /\ op' = "build"
    /\ builder' = [kms_url |-> kms_url, kms_cert |-> kms_cert, config |-> config]
    /\ retries' = retries_at_start
    /\ kms_config' = TextBody("")
    /\ answer' = NoAnswer
    /\ CreateRequest(kms_url, kms_cert, config, create_request_from_encoded_config_list(config))
    /\ self' = 0
    /\ args' = NoArgs
    /\ outer' = NoOuter
    /\ waited' = (waited \/ CountEv(calls, Ev("GET", 202)) > 0)
    /\ UNCHANGED << program, contexts, multipart_vars, adapter_vars, hexarg, plain, written,
                    binding_vars >>

(***************************************************************************)
(* One iteration of the loop of get_kms_config (lib.rs 177-205): the GET,  *)
(* its answer, and the sleep of a retry.                                   *)
(***************************************************************************)
KmsPoll(resp) ==
    /\ pc = "polling"
    /\ LET step == get_kms_config_step(resp, retries)
           sent == Append(calls, Ev("GET", resp.status))
       IN  /\ retries' = step.retries
           /\ answer' = resp
           /\ IF step.next = "again"
              THEN /\ calls' = IF step.sleep THEN Append(sent, Ev("sleep", 1)) ELSE sent
                   /\ UNCHANGED << pc, result, kms_config, sessions >>
              ELSE IF IsOk(step.res)
              THEN /\ kms_config' = step.res.val
                   /\ calls' = sent
                   /\ pc' = "have_config"
                   /\ UNCHANGED << result, sessions >>
              ELSE /\ FinishBuild(step.res, sent, path)
                   /\ UNCHANGED kms_config
    /\ UNCHANGED << program, op, builder, path, cert, post_vars, contexts, multipart_vars, adapter_vars, hexarg, waited, binding_vars, plain, written >>

(***************************************************************************)
(* ClientRequest::from_kms_config on the body returned (lib.rs 259), and   *)
(* the end of build.                                                       *)
(***************************************************************************)
FromKmsConfig ==
    /\ pc = "have_config"
    /\ LET r == from_kms_config(kms_config, cert)
       IN  FinishBuild(r.res, calls \o r.trace, path)
    /\ UNCHANGED << program, op, provider_vars, post_vars, contexts, multipart_vars, adapter_vars, hexarg, waited, binding_vars, plain, written >>

(***************************************************************************)
(* OhttpClient::post and post_raw (lib.rs 388-428) with                    *)
(* encapsulate_and_send (lib.rs 349-386) down to `send()` of post_request. *)
(***************************************************************************)
\* the locals of build are gone once it has returned
ProviderReturned ==
    /\ builder' = NoBuilder
    /\ path' = "none"
    /\ cert' = ""
    /\ retries' = 0
    /\ kms_config' = TextBody("")
    /\ answer' = NoAnswer

Consume_kept(session) == session
\* `self` is taken by value: the session is moved into the call
Consume(session) == [session EXCEPT !.state = "consumed"]

\* how the capabilities under encapsulate_and_send fare: encapsulate fails,
\* the client of post_request cannot be built, or both succeed
Fates == {"encapsulate_fails", "client_fails", "fine"}

\* encapsulate_and_send on the binary request, the session already moved in
\* (in main of the binary: the same statements inlined, main.rs 466-484);
\* before are the calls the operation made so far
EncapsulateAndSend(s, outer_headers, bhttp_request, fate, before) ==
    LET ctx == Len(contexts) + 1
        enc_request == [context |-> ctx, key |-> sessions[s].key, sealed |-> bhttp_request]
        req == post_request_builder(GatewayUrl, outer_headers, enc_request,
                                    fate # "client_fails")
        used == [Consume(sessions[s]) EXCEPT !.encapsulated = @ + 1]
    IN  /\ sessions' = [sessions EXCEPT ![s] = used]
        /\ IF fate = "encapsulate_fails"
           THEN /\ Finish(Err("EncapsulationError"), Append(before, Ev("encapsulate", 0)))
                /\ UNCHANGED << outer, contexts >>
           ELSE /\ contexts' = Append(contexts, [session |-> s, decapsulated |-> 0, answers |-> 0])
                /\ IF IsOk(req)
                   THEN /\ outer' = req.val
                        /\ calls' = before \o << Ev("encapsulate", 1), Ev("POST", 0) >>
                        /\ pc' = "sending"
                        /\ result' = NoResult
                   ELSE /\ Finish(req, Append(before, Ev("encapsulate", 1)))
                        /\ UNCHANGED outer

\* post on headers, data, form_fields and outer_headers; request_buf is what
\* create_request_buffer made of the first three, the first statement of post
Post(s, headers, data, form_fields, request_buf, outer_headers, fate) ==
    /\ program = "lib"
    /\ pc = "idle"
    /\ s \in DOMAIN sessions
    /\ sessions[s].state = "live"
    /\ op' = "post"
    /\ self' = s
    /\ args' = [outer_headers |-> outer_headers, fate |-> fate, headers |-> headers,
                data |-> data, form_fields |-> form_fields]
    /\ IF IsOk(request_buf)
       THEN EncapsulateAndSend(s, outer_headers, request_buf.val, fate, << >>)
       ELSE /\ Finish(request_buf, << >>)
                /\ sessions' = [sessions EXCEPT ![s] = Consume(@)]
                /\ UNCHANGED << outer, contexts >>
    /\ ProviderReturned
    /\ UNCHANGED << program, multipart_vars, adapter_vars, hexarg, waited, binding_vars, plain, written >>

\* request_buf is what read_http and write_bhttp made of http_request, the
\* first statements of post_raw
PostRaw(s, http_request, request_buf, outer_headers, fate) ==
    /\ program = "lib"
    /\ pc = "idle"
    /\ s \in DOMAIN sessions
    /\ sessions[s].state = "live"
    /\ op' = "post_raw"
    /\ self' = s
    /\ args' = [outer_headers |-> outer_headers, fate |-> fate, http_request |-> http_request]
    /\ IF IsOk(request_buf)
       THEN EncapsulateAndSend(s, outer_headers, request_buf.val, fate, << >>)
       ELSE /\ Finish(request_buf, << >>)
                /\ sessions' = [sessions EXCEPT ![s] = Consume(@)]
                /\ UNCHANGED << outer, contexts >>
    /\ ProviderReturned
    /\ UNCHANGED << program, multipart_vars, adapter_vars, hexarg, waited, binding_vars, plain, written >>

(***************************************************************************)
(* The answer to the outer POST: the end of post_request (lib.rs 294-308), *)
(* then decapsulate_response (lib.rs 379-385).                             *)
(***************************************************************************)
OuterResponse(status) ==
    /\ pc = "sending"
    /\ program = "lib"
    /\ LET ctx == outer.body.context
           response == [status |-> status, headers |-> ResponseHeaders, answers |-> ctx]
           posted == post_request_result(response)
           wrapped == decapsulate_response(posted.val, ctx)
           got == Append(calls, Ev("response", status))
       IN  IF IsOk(posted)
           THEN /\ Finish(wrapped, Append(got, Ev("decapsulate", ctx)))
                /\ contexts' = [contexts EXCEPT ![ctx].decapsulated = @ + 1,
                                                ![ctx].answers = posted.val.answers]
           ELSE /\ Finish(posted, got)
                /\ UNCHANGED contexts
    /\ UNCHANGED << program, op, provider_vars, sessions, post_vars, multipart_vars, adapter_vars, hexarg, waited, binding_vars, plain, written >>

(***************************************************************************)
(* main of the standalone binary (main.rs 420-496): the request buffer and *)
(* the provider path, then encapsulate and the outer POST, then            *)
(* handle_response.                                                        *)
(***************************************************************************)
InitBin ==
    /\ program = "bin"
    /\ pc = "idle"
    /\ op = "none"
    /\ builder = NoBuilder
    /\ path = "none"
    /\ cert = ""
    /\ retries = 0
    /\ kms_config = TextBody("")
    /\ answer = NoAnswer
    /\ calls = << >>
    /\ result = NoResult
    /\ sessions = << >>
    /\ self = 0
    /\ args = NoArgs
    /\ outer = NoOuter
    /\ contexts = << >>
    /\ request = ""
    /\ body = None
    /\ written = NoOutput
    /\ plain = << >>
    /\ waited = FALSE
    /\ py_response = NoUpstream
    /\ guard = 0
    /\ py_calls = << >>
    /\ py_posts = << >>
    /\ upstream = NoUpstream
    /\ wrapper = NoWrapper
    /\ fed = NoFed
    /\ hexarg = NoHexArg

\* main from Args::parse() to the first suspension of the provider
\* request_buf is what create_request_buffer made of the arguments it is
\* given; indeterminate is the flag of Args, which no statement of main reads
BinMain(request_buf, indeterminate, kms_url, kms_cert, config, outer_headers, output) ==
    /\ program = "bin"
    /\ pc = "idle"
    /\ op = "none"
    /\ op' = "main"
    /\ builder' = [kms_url |-> kms_url, kms_cert |-> kms_cert, config |-> config]
    /\ args' = [outer_headers |-> outer_headers, fate |-> "none",
                request_buf |-> request_buf, output |-> output,
                indeterminate |-> indeterminate]
    /\ IF IsOk(request_buf)
       THEN CreateRequest(kms_url, kms_cert, config,
                          bin_create_request_from_encoded_config_list(config))
       ELSE /\ Finish(request_buf, << >>)
            /\ UNCHANGED << path, cert, sessions >>
    /\ UNCHANGED << program, retries, kms_config, answer, self, outer, contexts,
                    multipart_vars, adapter_vars, hexarg, waited, binding_vars, plain, written >>

\* `ohttp_request.encapsulate(&request_buf)` and post_request down to `send()`
BinEncapsulateAndSend(fate) ==
    /\ program = "bin"
    /\ pc = "have_request"
    /\ self' = Len(sessions)
    /\ args' = [args EXCEPT !.fate = fate]
    /\ EncapsulateAndSend(Len(sessions), args.outer_headers, args.request_buf.val, fate, calls)
    /\ UNCHANGED << program, op, provider_vars, multipart_vars, adapter_vars, hexarg, waited, binding_vars, plain, written >>

\* the answer to the outer POST: the end of post_request (main.rs 350-375),
\* then handle_response on the decapsulated stream
BinOuterResponse(status, stream) ==
    /\ program = "bin"
    /\ pc = "sending"
    /\ LET ctx == outer.body.context
           response == [status |-> status, headers |-> ResponseHeaders, answers |-> ctx]
           posted == bin_post_request_result(response)
           handled == handle_response(stream, args.output, written)
           got == Append(calls, Ev("response", status))
       IN  IF ~IsOk(posted)
           THEN /\ Finish(posted, got)
                /\ UNCHANGED << contexts, written, plain >>
           ELSE IF IsErr(handled.res)
           THEN /\ Finish(handled.res, got)
                /\ UNCHANGED << contexts, written, plain >>
           ELSE /\ Finish(handled.res, Append(got, Ev("decapsulate", ctx)))
                /\ written' = handled.written
                /\ plain' = stream
                /\ contexts' = [contexts EXCEPT ![ctx].decapsulated = @ + 1,
                                                ![ctx].answers = posted.val.answers]
    /\ UNCHANGED << program, op, provider_vars, sessions, post_vars, multipart_vars, adapter_vars, hexarg, waited, binding_vars >>

(***************************************************************************)
(* main of ohttp-client-cli (ohttp-client-cli/src/main.rs 63-103): build   *)
(* of the library, post of the library, then the loop over the body.       *)
(***************************************************************************)
\* the arguments of ohttp-client-cli: headers, data (`default_value = ""`),
\* form_fields
CliRequestSpecs ==
    { [headers |-> None, data |-> Some("hi"), form_fields |-> None],
      [headers |-> Some(<< "Accept: application/json" >>), data |-> Some(""),
       form_fields |-> Some(<< "name=value" >>)],
      [headers |-> None, data |-> Some(""), form_fields |-> Some(<< "file=@gone.bin" >>)] }

InitCli ==
    /\ program = "cli"
    /\ pc = "idle"
    /\ op = "none"
    /\ builder = NoBuilder
    /\ path = "none"
    /\ cert = ""
    /\ retries = 0
    /\ kms_config = TextBody("")
    /\ answer = NoAnswer
    /\ calls = << >>
    /\ result = NoResult
    /\ sessions = << >>
    /\ self = 0
    /\ args = NoArgs
    /\ outer = NoOuter
    /\ contexts = << >>
    /\ request = ""
    /\ body = None
    /\ written = NoOutput
    /\ plain = << >>
    /\ waited = FALSE
    /\ py_response = NoUpstream
    /\ guard = 0
    /\ py_calls = << >>
    /\ py_posts = << >>
    /\ upstream = NoUpstream
    /\ wrapper = NoWrapper
    /\ fed = NoFed
    /\ hexarg = NoHexArg

\* main from Args::parse() to the first suspension of
\* `OhttpClientBuilder::new().kms_url(..).kms_cert(..).config(..).build().await?`;
\* output and indeterminate are fields of Args that no statement of main reads
CliMain(kms_url, kms_cert, config, headers, data, form_fields, outer_headers, output, indeterminate) ==
    /\ program = "cli"
    /\ pc = "idle"
    /\ op = "none"
    /\ op' = "main"
    /\ builder' = [kms_url |-> kms_url, kms_cert |-> kms_cert, config |-> config]
    /\ args' = [outer_headers |-> outer_headers, fate |-> "none", headers |-> headers,
                data |-> data, form_fields |-> form_fields, output |-> output,
                indeterminate |-> indeterminate]
    /\ CreateRequest(kms_url, kms_cert, config, create_request_from_encoded_config_list(config))
    /\ UNCHANGED << program, retries, kms_config, answer, self, outer, contexts,
                    multipart_vars, adapter_vars, hexarg, waited, binding_vars, plain, written >>

\* `ohttp_client.post(&args.url, &args.target_path, &args.headers, &args.data,
\* &args.form_fields, &args.outer_headers).await?` down to `send()`
CliPost(fate) ==
    /\ program = "cli"
    /\ pc = "have_request"
    /\ self' = Len(sessions)
    /\ args' = [args EXCEPT !.fate = fate]
    /\ LET request_buf == create_request_buffer("/", args.headers, args.data,
                                                args.form_fields, Boundary32)
       IN  IF IsOk(request_buf)
           THEN EncapsulateAndSend(Len(sessions), args.outer_headers, request_buf.val, fate,
                                   calls)
           ELSE /\ Finish(request_buf, calls)
                /\ sessions' = [sessions EXCEPT ![Len(sessions)] = Consume(@)]
                /\ UNCHANGED << outer, contexts >>
    /\ UNCHANGED << program, op, provider_vars, multipart_vars, adapter_vars, hexarg, waited, binding_vars, plain,
                    written >>

\* the outer response arrives: post returns the decapsulated response or its
\* error, and main reads the body; stream is what the decapsulated body yields
CliOuterResponse(status, stream) ==
    /\ program = "cli"
    /\ pc = "sending"
    /\ LET ctx == outer.body.context
           response == [status |-> status, headers |-> ResponseHeaders, answers |-> ctx]
           posted == post_request_result(response)
           wrapped == decapsulate_response(posted.val, ctx)
           read == cli_read_response(wrapped.val.status, stream, written)
           got == Append(calls, Ev("response", status))
       IN  IF ~IsOk(posted)
           THEN /\ Finish(posted, got)
                /\ UNCHANGED << contexts, written, plain >>
           ELSE /\ Finish(read.res, Append(got, Ev("decapsulate", ctx)))
                /\ written' = read.written
                /\ plain' = stream
                /\ contexts' = [contexts EXCEPT ![ctx].decapsulated = @ + 1,
                                                ![ctx].answers = posted.val.answers]
    /\ UNCHANGED << program, op, provider_vars, sessions, post_vars, multipart_vars,
                    adapter_vars, hexarg, waited, binding_vars >>

(***************************************************************************)
(* create_multipart_request statement by statement (lib.rs 122-148;        *)
(* main.rs 186-209), on arguments fixed at the start.                      *)
(***************************************************************************)
\* the fields a caller may list: plain, files of known and unknown type, a
\* file that is not there, an entry without '='
FormFields == { "name=value", "file=@img.png", "file=@doc.pdf", "file=@notes.txt",
                "file=@gone.bin", "novalue" }

MultipartHeaders == { None, Some(<< "Accept: application/json" >>),
                      Some(<< "Accept: */*", "X-Trace: 1" >>) }
MultipartData == { None, Some(""), Some("hi"), Some("{\"prompt\": \"hello\"}") }
MultipartFields == { None } \cup { Some(f) : f \in SeqsUpTo(FormFields, MaxFields) }

\* the arguments of create_multipart_request: the library takes data and draws
\* a boundary, the binary takes no data and has its boundary fixed
MultipartArgs ==
    { [program |-> "lib", target_path |-> "/score", headers |-> h, data |-> d,
       form_fields |-> f, boundary |-> Boundary32] :
          h \in MultipartHeaders, d \in MultipartData, f \in MultipartFields }
    \cup
    { [program |-> "bin", target_path |-> "/score", headers |-> h, data |-> None,
       form_fields |-> f, boundary |-> BinBoundary] :
          h \in MultipartHeaders, f \in MultipartFields }

InitMultipart ==
    /\ args \in MultipartArgs
    /\ program = args.program
    /\ pc = "idle"
    /\ op = "none"
    /\ builder = NoBuilder
    /\ path = "none"
    /\ cert = ""
    /\ retries = 0
    /\ kms_config = TextBody("")
    /\ answer = NoAnswer
    /\ calls = << >>
    /\ result = NoResult
    /\ sessions = << >>
    /\ self = 0
    /\ outer = NoOuter
    /\ contexts = << >>
    /\ request = ""
    /\ body = None
    /\ written = NoOutput
    /\ plain = << >>
    /\ waited = FALSE
    /\ py_response = NoUpstream
    /\ guard = 0
    /\ py_calls = << >>
    /\ py_posts = << >>
    /\ upstream = NoUpstream
    /\ wrapper = NoWrapper
    /\ fed = NoFed
    /\ hexarg = NoHexArg

\* `let mut request = Vec::new(); write_post_request_line(..)?; append_headers(..)?;`
WriteRequestHead ==
    /\ pc = "idle"
    /\ op = "none"
    /\ op' = "create_multipart_request"
    /\ request' = append_headers(write_post_request_line("", args.target_path), args.headers)
    /\ pc' = "create_body"
    /\ UNCHANGED << program, provider_vars, calls, result, sessions, post_vars, contexts, body,
                    written, adapter_vars, hexarg, waited, binding_vars, plain >>

\* `let mut body = create_multipart_body(..)?;`
CreateMultipartBody ==
    /\ pc = "create_body"
    /\ LET b == IF program = "lib"
                THEN create_multipart_body(args.data, args.form_fields, args.boundary)
                ELSE bin_create_multipart_body(args.form_fields, args.boundary)
       IN  IF IsOk(b)
           THEN /\ body' = Some(b.val)
                /\ pc' = "append_headers"
                /\ UNCHANGED << result, calls >>
           ELSE /\ Finish(b, calls)
                /\ UNCHANGED body
    /\ UNCHANGED << program, op, provider_vars, sessions, post_vars, contexts, request,
                    written, adapter_vars, hexarg, waited, binding_vars, plain >>

\* `append_multipart_headers(&mut request, boundary, body.len())?;`
AppendMultipartHeaders ==
    /\ pc = "append_headers"
    /\ request' = append_multipart_headers(request, args.boundary, Len(Unwrap(body)))
    /\ pc' = "append_body"
    /\ UNCHANGED << program, op, provider_vars, calls, result, sessions, post_vars, contexts,
                    body, written, adapter_vars, hexarg, waited, binding_vars, plain >>

\* `request.append(&mut body); Ok(request)`: append moves the bytes out of body
AppendBody ==
    /\ pc = "append_body"
    /\ request' = request \o Unwrap(body)
    /\ body' = Some("")
    /\ Finish(Ok(request'), calls)
    /\ UNCHANGED << program, op, provider_vars, sessions, post_vars, contexts, written, adapter_vars, hexarg, waited, binding_vars, plain >>

(***************************************************************************)
(* decapsulate_response statement by statement (lib.rs 312-341), and the   *)
(* pulls of the stream it hands to decapsulate_stream, on an outer         *)
(* response fixed at the start.                                            *)
(***************************************************************************)
\* the header maps of an outer response: names with their values, some names
\* with more than one
HeaderMaps ==
    { << >>,
      ResponseHeaders,
      << << "content-type", << "message/ohttp-chunked-res" >> >>,
         << "set-cookie", << "a=1", "b=2" >> >> >>,
      << << "set-cookie", << "a=1", "b=2" >> >>,
         << "x-attestation-token", << "tok" >> >> >>,
      << << "via", << "p1", "p2" >> >>,
         << "warning", << "w1", "w2" >> >> >> }

\* what Response::chunk yields before the end of the body: chunks and read errors
OuterChunks == SeqsUpTo({ Ok(Some("c1")), Ok(Some("c2")), Err("read error") }, MaxChunks)

OuterResponses ==
    { [status |-> st, headers |-> h, chunks |-> cs, pulls |-> 0] :
          st \in { 200, 404 }, h \in HeaderMaps, cs \in OuterChunks }

InitAdapter ==
    /\ upstream \in OuterResponses
    /\ wrapper = NoWrapper
    /\ fed = NoFed
    /\ hexarg = NoHexArg
    /\ program = "lib"
    /\ pc = "idle"
    /\ op = "none"
    /\ builder = NoBuilder
    /\ path = "none"
    /\ cert = ""
    /\ retries = 0
    /\ kms_config = TextBody("")
    /\ answer = NoAnswer
    /\ calls = << >>
    /\ result = NoResult
    /\ sessions = << >>
    /\ self = 0
    /\ args = NoArgs
    /\ outer = NoOuter
    /\ contexts = << >>
    /\ request = ""
    /\ body = None
    /\ written = NoOutput
    /\ plain = << >>
    /\ waited = FALSE
    /\ py_response = NoUpstream
    /\ guard = 0
    /\ py_calls = << >>
    /\ py_posts = << >>

\* `let status = response.status(); let mut builder = ..builder().status(status);
\* let headers = response.headers().clone();`
BuilderStatus ==
    /\ pc = "idle"
    /\ op = "none"
    /\ op' = "decapsulate_response"
    /\ wrapper' = [status |-> upstream.status, headers |-> << >>,
                   todo |-> into_iter(upstream.headers)]
    /\ pc' = "copy_headers"
    /\ UNCHANGED << program, provider_vars, calls, result, sessions, post_vars, contexts,
                    multipart_vars, hexarg, waited, binding_vars, plain, written, upstream, fed >>

\* one turn of `for (key, value) in headers`
CopyHeader ==
    /\ pc = "copy_headers"
    /\ wrapper.todo # << >>
    /\ wrapper' = [wrapper EXCEPT !.headers = copy_header(@, Head(wrapper.todo)),
                                  !.todo = Tail(@)]
    /\ UNCHANGED << program, pc, op, provider_vars, calls, result, sessions, post_vars,
                    contexts, multipart_vars, hexarg, waited, binding_vars, plain, written, upstream, fed >>

\* the loop is over: the stream is made by unfold and handed to
\* decapsulate_stream, `builder.body(..)?` and `Ok(Response::from(response))`
WrapStream ==
    /\ pc = "copy_headers"
    /\ wrapper.todo = << >>
    /\ result' = Ok([status |-> wrapper.status, headers |-> wrapper.headers])
    /\ pc' = "streaming"
    /\ UNCHANGED << program, op, provider_vars, calls, sessions, post_vars, contexts,
                    multipart_vars, written, adapter_vars, hexarg, waited, binding_vars, plain >>

\* decapsulate_stream polls the stream made by unfold once more: the closure
\* calls response.chunk() and yields the chunk or ends the stream
PullChunk ==
    /\ pc = "streaming"
    /\ ~fed.ended
    /\ LET step == unfold_step(chunk(upstream))
       IN  /\ upstream' = [upstream EXCEPT !.pulls = @ + 1]
           /\ fed' = IF IsSome(step) THEN [fed EXCEPT !.items = Append(@, Unwrap(step))]
                      ELSE [fed EXCEPT !.ended = TRUE]
    /\ UNCHANGED << program, pc, op, provider_vars, calls, result, sessions, post_vars,
                    contexts, multipart_vars, hexarg, waited, binding_vars, plain, written, wrapper >>

(***************************************************************************)
(* HexArg::from_str (lib.rs 26-32; main.rs 26-32) on a string fixed at the *)
(* start, and hex::encode on the bytes it holds.                           *)
(***************************************************************************)
MaxHexLen == 4

RECURSIVE StringsUpTo(_, _)
\* the strings of at most n characters of the set A
StringsUpTo(A, n) ==
    IF n = 0 THEN { "" }
    ELSE LET shorter == StringsUpTo(A, n - 1)
         IN  shorter \cup { q \o c : q \in shorter, c \in A }

\* hex digits of both cases and a character that is none
HexStrings == StringsUpTo({ "0", "9", "a", "F", "g" }, MaxHexLen)

InitHex ==
    /\ hexarg \in { [s |-> str, parsed |-> NoResult, encoded |-> None] : str \in HexStrings }
    /\ upstream = NoUpstream
    /\ wrapper = NoWrapper
    /\ fed = NoFed
    /\ program = "lib"
    /\ pc = "idle"
    /\ op = "none"
    /\ builder = NoBuilder
    /\ path = "none"
    /\ cert = ""
    /\ retries = 0
    /\ kms_config = TextBody("")
    /\ answer = NoAnswer
    /\ calls = << >>
    /\ result = NoResult
    /\ sessions = << >>
    /\ self = 0
    /\ args = NoArgs
    /\ outer = NoOuter
    /\ contexts = << >>
    /\ request = ""
    /\ body = None
    /\ written = NoOutput
    /\ plain = << >>
    /\ waited = FALSE
    /\ py_response = NoUpstream
    /\ guard = 0
    /\ py_calls = << >>
    /\ py_posts = << >>

\* `HexArg::from_str(s)`
HexFromStr ==
    /\ hexarg.parsed = NoResult
    /\ hexarg' = [hexarg EXCEPT !.parsed = HexArg_from_str(hexarg.s)]
    /\ UNCHANGED << program, pc, op, provider_vars, calls, result, sessions, post_vars,
                    contexts, multipart_vars, written, adapter_vars, plain, waited, binding_vars >>

\* `hex::encode(..)` on the bytes of the HexArg
HexEncode ==
    /\ IsOk(hexarg.parsed)
    /\ hexarg.encoded = None
    /\ hexarg' = [hexarg EXCEPT !.encoded = Some(hex_encode(hexarg.parsed.val))]
    /\ UNCHANGED << program, pc, op, provider_vars, calls, result, sessions, post_vars,
                    contexts, multipart_vars, written, adapter_vars, plain, waited, binding_vars >>

(***************************************************************************)
(* OhttpResponse of the binding (pyohttp/src/lib.rs 11-55): status,        *)
(* headers and chunk called in any number and order on one object whose    *)
(* Response is fixed at the start.  chunk returns an awaitable whose       *)
(* future runs on the runtime; status and headers block their caller.      *)
(***************************************************************************)
\* number of method calls made on one OhttpResponse
MaxPyCalls == 3

PyMethods == { "chunk", "status", "headers" }

\* the responses an OhttpResponse wraps: what post returned, whose body is the
\* decapsulated stream; Response::chunk yields its chunks and its errors, and
\* as in the loop of handle_response an item may follow an error
PyResponses ==
    { [status |-> 200, headers |-> ResponseHeaders, chunks |-> cs, pulls |-> 0] :
          cs \in OuterChunks }

\* `tokio::sync::Mutex::lock().await` completes when no guard is alive
lock_free(g) == g = 0

\* the closure of OhttpResponse::chunk: `Ok(Some(chunk)) => Some(chunk.to_vec()), _ => None`
py_chunk(item) ==
    IF IsOk(item) /\ IsSome(item.val) THEN Some(Unwrap(item.val)) ELSE None

RECURSIVE py_headers(_)
\* OhttpResponse::headers: the (name, value) pairs collected into a HashMap,
\* where a later value of a name replaces an earlier one
py_headers(headers) ==
    IF headers = << >> THEN << >>
    ELSE Append(py_headers(SubSeq(headers, 1, Len(headers) - 1)),
                << headers[Len(headers)][1],
                   headers[Len(headers)][2][Len(headers[Len(headers)][2])] >>)

\* the calls of status and headers that have not returned: each blocks the
\* thread that called it in `rt.block_on(f)`
Blocking == { i \in DOMAIN py_calls : py_calls[i].method # "chunk" /\ py_calls[i].pc # "done" }

InitPyResponse ==
    /\ program = "py"
    /\ pc = "idle"
    /\ op = "none"
    /\ builder = NoBuilder
    /\ path = "none"
    /\ cert = ""
    /\ retries = 0
    /\ kms_config = TextBody("")
    /\ answer = NoAnswer
    /\ calls = << >>
    /\ result = NoResult
    /\ sessions = << >>
    /\ self = 0
    /\ args = NoArgs
    /\ outer = NoOuter
    /\ contexts = << >>
    /\ request = ""
    /\ body = None
    /\ written = NoOutput
    /\ plain = << >>
    /\ waited = FALSE
    /\ upstream = NoUpstream
    /\ wrapper = NoWrapper
    /\ fed = NoFed
    /\ hexarg = NoHexArg
    /\ py_response \in PyResponses
    /\ guard = 0
    /\ py_calls = << >>
    /\ py_posts = << >>

\* a method of the OhttpResponse is called: `Arc::clone(&self.response)` and the
\* future that will lock the Response
PyCall(method) ==
    /\ program = "py"
    /\ Len(py_calls) < MaxPyCalls
    /\ Blocking = {}
    /\ py_calls' = Append(py_calls, [method |-> method, pc |-> "waiting", at |-> 0,
                                     ret |-> None])
    /\ UNCHANGED << program, pc, op, provider_vars, calls, result, sessions, post_vars,
                    contexts, multipart_vars, written, adapter_vars, hexarg, plain, waited,
                    py_response, guard, py_posts >>

\* `response.lock().await` of call i completes
PyLock(i) ==
    /\ i \in DOMAIN py_calls
    /\ py_calls[i].pc = "waiting"
    /\ lock_free(guard)
    /\ guard' = i
    /\ py_calls' = [py_calls EXCEPT ![i].pc = "locked"]
    /\ UNCHANGED << program, pc, op, provider_vars, calls, result, sessions, post_vars,
                    contexts, multipart_vars, written, adapter_vars, hexarg, plain, waited,
                    py_response, py_posts >>

\* call i, holding the guard, reads the Response (`.chunk().await`, `.status()`,
\* `.headers()`), drops the guard and returns
PyReturn(i) ==
    /\ i \in DOMAIN py_calls
    /\ py_calls[i].pc = "locked"
    /\ LET m == py_calls[i].method
           ret == IF m = "chunk" THEN py_chunk(chunk(py_response))
                  ELSE IF m = "status" THEN py_response.status
                  ELSE py_headers(py_response.headers)
       IN  /\ py_calls' = [py_calls EXCEPT ![i] = [method |-> m, pc |-> "done",
                                                     at |-> IF m = "chunk"
                                                            THEN py_response.pulls + 1 ELSE 0,
                                                     ret |-> ret]]
           /\ py_response' = IF m = "chunk" THEN [py_response EXCEPT !.pulls = @ + 1]
                             ELSE py_response
    /\ guard' = IF guard = i THEN 0 ELSE guard
    /\ UNCHANGED << program, pc, op, provider_vars, calls, result, sessions, post_vars,
                    contexts, multipart_vars, written, adapter_vars, hexarg, plain, waited,
                    py_posts >>

NextPyResponse ==
    \/ \E method \in PyMethods : PyCall(method)
    \/ \E i \in 1..MaxPyCalls : PyLock(i)
    \/ \E i \in 1..MaxPyCalls : PyReturn(i)

\* the method calls of the binding on one OhttpResponse, in every interleaving
SpecPyResponse == InitPyResponse /\ [][NextPyResponse]_vars

(***************************************************************************)
(* OhttpClient of the binding (pyohttp/src/lib.rs 56-156): post and        *)
(* post_raw called on one object, each call a future of its own on the     *)
(* runtime; the futures run in any interleaving.                           *)
(***************************************************************************)
\* number of calls of post and post_raw made on one OhttpClient
MaxPyPosts == 2

\* OhttpClient::new(kms_url, kms_cert): the objects of the model
PyClients ==
    { [kms_url |-> Some("https://kms"), kms_cert |-> Some(c), config |-> None] :
          c \in { "ca.pem", "missing.pem" } }

\* `.map_err(|e| PyErr::new::<PyException, _>(format!("{}", e)))?`
py_map_err(r) == IF IsErr(r) THEN [kind |-> "PyException", of |-> r] ELSE r

own_client_shared(built, earlier) == IF earlier = {} THEN built ELSE CHOOSE s \in earlier : TRUE
\* `let client = OhttpClientBuilder::new()...build().await..?` inside the future:
\* the client a call posts on is the one its own build returned
own_client(built, earlier) == built

\* the future of a call of post or post_raw before its first poll; request_buf
\* is what the first statements of OhttpClient::post / post_raw make of the
\* call's arguments
NewPyPost(method, request_buf) ==
    [method |-> method, pc |-> "build", request_buf |-> request_buf, retries |-> 0,
     polled |-> FALSE, kms_config |-> TextBody(""), verified |-> FALSE, session |-> 0,
     context |-> 0, ret |-> NoResult]

\* the sessions the other futures hold
SessionsOfOthers(t) ==
    { py_posts[u].session : u \in { v \in DOMAIN py_posts : v # t /\ py_posts[v].session # 0 } }

InitPyClient ==
    /\ program = "py"
    /\ pc = "idle"
    /\ op = "none"
    /\ builder \in PyClients
    /\ path = "none"
    /\ cert = ""
    /\ retries = 0
    /\ kms_config = TextBody("")
    /\ answer = NoAnswer
    /\ calls = << >>
    /\ result = NoResult
    /\ sessions = << >>
    /\ self = 0
    /\ args = NoArgs
    /\ outer = NoOuter
    /\ contexts = << >>
    /\ request = ""
    /\ body = None
    /\ written = NoOutput
    /\ plain = << >>
    /\ waited = FALSE
    /\ upstream = NoUpstream
    /\ wrapper = NoWrapper
    /\ fed = NoFed
    /\ hexarg = NoHexArg
    /\ py_response = NoUpstream
    /\ guard = 0
    /\ py_calls = << >>
    /\ py_posts = << >>

\* the future t ends with r
PyDone(t, r) == py_posts' = [py_posts EXCEPT ![t].pc = "done", ![t].ret = py_map_err(r)]

\* OhttpClient::post / post_raw of the binding: kms_url and kms_cert are
\* cloned and the future is handed to the runtime
PyPost(method, request_buf) ==
    /\ program = "py"
    /\ Len(py_posts) < MaxPyPosts
    /\ py_posts' = Append(py_posts, NewPyPost(method, request_buf))
    /\ UNCHANGED << program, pc, op, provider_vars, calls, result, sessions, post_vars,
                    contexts, multipart_vars, written, adapter_vars, hexarg, plain, waited,
                    py_response, guard, py_calls >>

\* build in the future t, down to the first GET of its get_kms_config
PyBuild(t) ==
    /\ t \in DOMAIN py_posts
    /\ py_posts[t].pc = "build"
    /\ LET rd == read_to_string(Unwrap(builder.kms_cert))
       IN  IF ~UseKms(builder.kms_url, builder.kms_cert) THEN PyDone(t, Err("MissingConfiguration"))
           ELSE IF IsErr(rd) THEN PyDone(t, rd)
           ELSE IF ~from_pem_ok(rd.val) THEN PyDone(t, Err("KmsRequestError"))
           ELSE py_posts' = [py_posts EXCEPT ![t].pc = "polling", ![t].retries = retries_at_start]
    /\ UNCHANGED << program, pc, op, provider_vars, calls, result, sessions, post_vars,
                    contexts, multipart_vars, written, adapter_vars, hexarg, plain, waited,
                    py_response, guard, py_calls >>

\* one iteration of the loop of get_kms_config in the future t; its counter is
\* gone when the function returns
PyKmsPoll(t, resp) ==
    /\ t \in DOMAIN py_posts
    /\ py_posts[t].pc = "polling"
    /\ LET step == get_kms_config_step(resp, py_posts[t].retries)
           polled == [py_posts EXCEPT ![t].polled = TRUE, ![t].retries = step.retries]
       IN  IF step.next = "again" THEN py_posts' = polled
           ELSE IF IsOk(step.res)
           THEN py_posts' = [polled EXCEPT ![t].pc = "have_config", ![t].retries = 0,
                                           ![t].kms_config = step.res.val]
           ELSE py_posts' = [polled EXCEPT ![t].pc = "done", ![t].retries = 0,
                                           ![t].ret = py_map_err(step.res)]
    /\ UNCHANGED << program, pc, op, provider_vars, calls, result, sessions, post_vars,
                    contexts, multipart_vars, written, adapter_vars, hexarg, plain, waited,
                    py_response, guard, py_calls >>

\* from_kms_config in the future t and the end of its build: the client
PyFromKmsConfig(t) ==
    /\ t \in DOMAIN py_posts
    /\ py_posts[t].pc = "have_config"
    /\ LET r == from_kms_config(py_posts[t].kms_config,
                                read_to_string(Unwrap(builder.kms_cert)).val)
           did == [py_posts EXCEPT ![t].verified = CountOp(r.trace, "verify") > 0]
       IN  IF IsOk(r.res)
           THEN /\ sessions' = Append(sessions, NewSession(r.res.val, "kms"))
                /\ py_posts' = [did EXCEPT ![t].pc = "have_client",
                                           ![t].session = own_client(Len(sessions) + 1,
                                                                     SessionsOfOthers(t))]
           ELSE /\ py_posts' = [did EXCEPT ![t].pc = "done", ![t].ret = py_map_err(r.res)]
                /\ UNCHANGED sessions
    /\ UNCHANGED << program, pc, op, provider_vars, calls, result, post_vars,
                    contexts, multipart_vars, written, adapter_vars, hexarg, plain, waited,
                    py_response, guard, py_calls >>

\* client.post / client.post_raw in the future t, down to `send()`: the client
\* is moved into the call
PyEncapsulateAndSend(t, fate) ==
    /\ t \in DOMAIN py_posts
    /\ py_posts[t].pc = "have_client"
    /\ LET s == py_posts[t].session
           request_buf == py_posts[t].request_buf
           ctx == Len(contexts) + 1
           enc_request == [context |-> ctx, key |-> sessions[s].key, sealed |-> request_buf.val]
           req == post_request_builder(GatewayUrl, None, enc_request, fate # "client_fails")
       IN  IF IsErr(request_buf)
           THEN /\ sessions' = [sessions EXCEPT ![s] = Consume(@)]
                /\ PyDone(t, request_buf)
                /\ UNCHANGED contexts
           ELSE /\ sessions' = [sessions EXCEPT ![s] = [Consume(@) EXCEPT !.encapsulated = @ + 1]]
                /\ IF fate = "encapsulate_fails"
                   THEN PyDone(t, Err("EncapsulationError")) /\ UNCHANGED contexts
                   ELSE /\ contexts' = Append(contexts, [session |-> s, decapsulated |-> 0,
                                                         answers |-> 0])
                        /\ IF ~IsOk(req)
                           THEN py_posts' = [py_posts EXCEPT ![t].pc = "done", ![t].context = ctx,
                                                             ![t].ret = py_map_err(req)]
                           ELSE py_posts' = [py_posts EXCEPT ![t].pc = "sending",
                                                             ![t].context = ctx]
    /\ UNCHANGED << program, pc, op, provider_vars, calls, result, post_vars,
                    multipart_vars, written, adapter_vars, hexarg, plain, waited,
                    py_response, guard, py_calls >>

\* the answer to the outer POST of the future t, decapsulate_response, and
\* `Ok(OhttpResponse { response: Arc::new(Mutex::new(response)) })`
PyOuterResponse(t, status) ==
    /\ t \in DOMAIN py_posts
    /\ py_posts[t].pc = "sending"
    /\ LET ctx == py_posts[t].context
           response == [status |-> status, headers |-> ResponseHeaders, answers |-> ctx]
           posted == post_request_result(response)
       IN  IF IsOk(posted)
           THEN /\ PyDone(t, decapsulate_response(posted.val, ctx))
                /\ contexts' = [contexts EXCEPT ![ctx].decapsulated = @ + 1,
                                                ![ctx].answers = posted.val.answers]
           ELSE /\ PyDone(t, posted)
                /\ UNCHANGED contexts
    /\ UNCHANGED << program, pc, op, provider_vars, calls, result, sessions, post_vars,
                    multipart_vars, written, adapter_vars, hexarg, plain, waited,
                    py_response, guard, py_calls >>

NextPyClient ==
    \/ \E spec \in { r \in RequestSpecs : r.data = None /\ r.form_fields = None } \cup
                   { r \in RequestSpecs : r.headers = None /\ r.data # None } :
          PyPost("post", create_request_buffer("/", spec.headers, spec.data,
                                               spec.form_fields, Boundary32))
    \/ \E raw \in RawRequests : PyPost("post_raw", post_raw_request_buf(raw))
    \/ \E t \in 1..MaxPyPosts : PyBuild(t)
    \/ \E t \in 1..MaxPyPosts, resp \in FewKmsResponses : PyKmsPoll(t, resp)
    \/ \E t \in 1..MaxPyPosts : PyFromKmsConfig(t)
    \/ \E t \in 1..MaxPyPosts, fate \in Fates : PyEncapsulateAndSend(t, fate)
    \/ \E t \in 1..MaxPyPosts, status \in OuterStatuses : PyOuterResponse(t, status)

\* the calls of post and post_raw of the binding on one OhttpClient, their
\* futures in every interleaving
SpecPyClient == InitPyClient /\ [][NextPyClient]_vars

(***************************************************************************)
(* What the claims speak of.                                               *)
(***************************************************************************)
Gets == CountOp(calls, "GET")
Sleeps == CountOp(calls, "sleep")
NotReady == CountEv(calls, Ev("GET", 202))

\* build is on its KMS path
OnKmsPath == op = "build" /\ path = "kms"

\* get_kms_config returned Ok(body)
KmsConfigReturned == OnKmsPath /\ pc \in {"have_config", "idle"} /\ answer.status = 200
                         /\ answer.readable /\ kms_config = answer.body
                         /\ (kms_config.json \/ Len(kms_config.text) > 0)

\* from_kms_config ran on that body and build returned
FromKmsConfigDone == KmsConfigReturned /\ pc = "idle"

LastEntry == kms_config.entries[Len(kms_config.entries)]

\* the calls of the polling loop are k times (GET answered 202, sleep), then one GET
PollPattern(k, last_status) ==
    /\ Len(calls) >= 2 * k + 2
    /\ calls[1] = Ev("read_cert", 0)
    /\ \A i \in 1..k : calls[2 * i] = Ev("GET", 202) /\ calls[2 * i + 1] = Ev("sleep", 1)
    /\ calls[2 * k + 2] = Ev("GET", last_status)

Next ==
    \/ \E u \in KmsUrls, c \in FewKmsCerts, g \in StaticConfigs : Build(u, c, g)
    \/ \E resp \in ReadyKmsResponses : KmsPoll(resp)
    \/ FromKmsConfig
    \/ \E spec \in RequestSpecs :
          LET request_buf == create_request_buffer("/", spec.headers, spec.data,
                                                   spec.form_fields, Boundary32)
          IN  \E s \in 1..MaxSessions, oh \in OuterHeaders, fate \in Fates :
                  Post(s, spec.headers, spec.data, spec.form_fields, request_buf, oh, fate)
    \/ \E raw \in RawRequests :
          LET request_buf == post_raw_request_buf(raw)
          IN  \E s \in 1..MaxSessions, oh \in OuterHeaders, fate \in Fates :
                  PostRaw(s, raw, request_buf, oh, fate)
    \/ \E status \in OuterStatuses : OuterResponse(status)

\* the library under a caller that builds sessions and posts on them
Spec == Init /\ [][Next]_vars

NextProvider ==
    \/ \E u \in KmsUrls, c \in KmsCerts, g \in StaticConfigs : Build(u, c, g)
    \/ \E resp \in KmsResponses : KmsPoll(resp)
    \/ FromKmsConfig

\* the key-configuration provider alone, against every answer of the KMS
SpecProvider == Init /\ [][NextProvider]_vars

NextBin ==
    \/ \E is_bhttp \in BOOLEAN, spec \in BinRequestSpecs :
          LET request_buf == bin_create_request_buffer(is_bhttp, "/", spec.headers,
                                                       spec.form_fields)
          IN  \E n \in BOOLEAN, u \in KmsUrls, c \in KmsCerts, g \in StaticConfigs,
                 oh \in BinOuterHeaders, o \in Outputs :
                  BinMain(request_buf, n, u, c, g, oh, o)
    \/ \E resp \in FewKmsResponses : KmsPoll(resp)
    \/ FromKmsConfig
    \/ \E fate \in Fates : BinEncapsulateAndSend(fate)
    \/ \E status \in BinOuterStatuses, stream \in ChunkStreams : BinOuterResponse(status, stream)

\* one run of the standalone binary
SpecBin == InitBin /\ [][NextBin]_vars

NextCli ==
    \/ \E u \in KmsUrls, c \in FewKmsCerts, g \in StaticConfigs, spec \in CliRequestSpecs,
          o \in Outputs, n \in BOOLEAN :
          CliMain(u, c, g, spec.headers, spec.data, spec.form_fields, None, o, n)
    \/ \E resp \in ReadyKmsResponses : KmsPoll(resp)
    \/ FromKmsConfig
    \/ \E fate \in Fates : CliPost(fate)
    \/ \E status \in OuterStatuses, stream \in ChunkStreams : CliOuterResponse(status, stream)

\* one run of ohttp-client-cli
SpecCli == InitCli /\ [][NextCli]_vars

NextMultipart ==
    \/ WriteRequestHead
    \/ CreateMultipartBody
    \/ AppendMultipartHeaders
    \/ AppendBody

\* the multipart request builder on every request of MultipartArgs
SpecMultipart == InitMultipart /\ [][NextMultipart]_vars

NextHex ==
    \/ HexFromStr
    \/ HexEncode

\* HexArg::from_str on every string of HexStrings, and its bytes encoded again
SpecHex == InitHex /\ [][NextHex]_vars

NextAdapter ==
    \/ BuilderStatus
    \/ CopyHeader
    \/ WrapStream
    \/ PullChunk

\* decapsulate_response and the stream it makes, on every outer response
SpecAdapter == InitAdapter /\ [][NextAdapter]_vars

(***************************************************************************)
(* The claims about the key-configuration provider, under SpecProvider.    *)
(***************************************************************************)

\* C1: the receipt verification gate.  Whenever from_kms_config has returned
\* Ok, the body was a JSON array with an entry, the verifier was called once,
\* on the receipt of the last entry, and accepted it, and the key of the
\* session built is the hex-decoded publicKey of that same entry.  Whenever
\* the receipt of the selected entry fails verification, build returns
\* ReceiptVerificationFailed, neither hex::decode nor from_encoded_config is
\* called, and no session is built from the entry - well-formed hex or not.
C1_ReceiptGate ==
    FromKmsConfigDone =>
        /\ IsOk(result) =>
              /\ kms_config.json
              /\ kms_config.entries # << >>
              /\ IsOk(verify(LastEntry.receipt, cert))
              /\ CountEv(calls, Ev("verify", Len(kms_config.entries))) = 1
              /\ HexDecode(LastEntry.key_config) = Ok(<< result.val.key >>)
              /\ sessions[Len(sessions)].key = result.val.key
        /\ (/\ kms_config.json
            /\ kms_config.entries # << >>
            /\ IsErr(verify(LastEntry.receipt, cert))) =>
              /\ result = Err("ReceiptVerificationFailed")
              /\ CountOp(calls, "hex_decode") = 0
              /\ CountOp(calls, "from_encoded_config") = 0

\* C1 witness: build has returned on an entry whose receipt fails verification
\* and whose publicKey is well-formed hex of a supported configuration.
C1_Witness ==
    /\ FromKmsConfigDone
    /\ kms_config.json
    /\ kms_config.entries # << >>
    /\ IsErr(verify(LastEntry.receipt, cert))
    /\ IsOk(HexDecode(LastEntry.key_config))
    /\ IsErr(result)

C3_PollingSuccess ==
    (OnKmsPath /\ answer.status = 200 /\ answer.readable) =>
        /\ NotReady <= max_retries
        /\ retries = NotReady
        /\ Gets = NotReady + 1
        /\ Sleeps = NotReady
        /\ PollPattern(NotReady, 200)
        /\ pc \in {"have_config", "idle"}
        /\ kms_config = answer.body
        /\ ~IsPanic(result)

\* C3 failing state: 202 three times, then 200 with an empty body, and the
\* process has aborted on the assertion instead of returning the body.
C3_Witness ==
    /\ OnKmsPath
    /\ NotReady = 3
    /\ retries = 3
    /\ answer.status = 200
    /\ answer.readable
    /\ answer.body = TextBody("")
    /\ pc = "aborted"
    /\ result = Panic("assertion failed: !body.is_empty()")

\* C4: in every call the counter never exceeds 3, at most 4 GETs are made and
\* as many sleeps as retries; when the KMS has answered 202 four times, the
\* call has ended with KmsTimeout and that 202 is the last thing that happened
\* (no sleep, no GET after it); KmsTimeout is returned in no other case.
C4_PollingTimeout ==
    OnKmsPath =>
        /\ retries <= max_retries
        /\ Gets <= max_retries + 1
        /\ Sleeps = retries
        /\ NotReady = max_retries + 1 =>
              /\ pc = "idle"
              /\ result = Err("KmsTimeout")
              /\ calls[Len(calls)] = Ev("GET", 202)
              /\ PollPattern(max_retries, 202)
              /\ Len(calls) = 2 * max_retries + 2
        /\ result = Err("KmsTimeout") => NotReady = max_retries + 1

\* C4 witness: the KMS answered 202 on every poll and the call has ended with KmsTimeout.
C4_Witness ==
    /\ OnKmsPath
    /\ result = Err("KmsTimeout")
    /\ NotReady = Gets

(***************************************************************************)
(* The claims about sessions and the outer POST, under Spec.               *)
(***************************************************************************)
Posting == op \in {"post", "post_raw"}

\* the outer header list has an entry without ':'
Malformed(outer_headers) ==
    /\ IsSome(outer_headers)
    /\ \E i \in 1..Len(Unwrap(outer_headers)) :
           ~IsSome(split_once(Unwrap(outer_headers)[i], ":"))

\* the calls of the operation, in order, are a prefix of this sequence
CallsPrefixOf(seq) ==
    /\ Len(calls) <= Len(seq)
    /\ \A i \in 1..Len(calls) : calls[i].op = seq[i]

\* C5: single-use session.  Every session has made at most one encapsulate
\* call, a session that made one (or was handed to post / post_raw at all) is
\* consumed and accepts no further post, no two response contexts come from
\* the same session, and every response context has been used for at most one
\* decapsulation, that of the response to its own encapsulated request.
C5_SingleUse ==
    /\ \A s \in DOMAIN sessions :
          /\ sessions[s].encapsulated <= 1
          /\ sessions[s].state = "live" => sessions[s].encapsulated = 0
    /\ \A c \in DOMAIN contexts :
          /\ contexts[c].decapsulated <= 1
          /\ contexts[c].decapsulated = 1 => contexts[c].answers = c
          /\ sessions[contexts[c].session].state = "consumed"
          /\ \A d \in DOMAIN contexts : contexts[d].session = contexts[c].session => d = c
    /\ (Posting /\ self # 0) => sessions[self].state = "consumed"

\* C5 witness: two sessions, each posted on once, each response decapsulated
\* with the context of its own request.
C5_Witness ==
    /\ Len(contexts) = 2
    /\ \A c \in DOMAIN contexts : contexts[c].decapsulated = 1 /\ contexts[c].answers = c
    /\ contexts[1].session # contexts[2].session
    /\ \A s \in DOMAIN sessions : sessions[s].encapsulated = 1

\* C6: within post / post_raw the calls are encapsulate, then the outer POST,
\* then its response, then decapsulation, in that order and each at most once;
\* when encapsulate failed the call has returned EncapsulationError and nothing
\* else was called (no POST, no second encapsulate); when the POST failed at
\* network level the call has returned TransportError without decapsulation.
C6_EncapsulatePostDecapsulate ==
    Posting =>
        /\ CallsPrefixOf(<< "encapsulate", "POST", "response", "decapsulate" >>)
        /\ (calls # << >> /\ calls[1] = Ev("encapsulate", 0)) =>
              /\ result = Err("EncapsulationError")
              /\ calls = << Ev("encapsulate", 0) >>
              /\ pc = "idle"
        /\ CountEv(calls, Ev("response", 0)) > 0 =>
              /\ result = Err("TransportError")
              /\ CountOp(calls, "decapsulate") = 0
              /\ contexts[Len(contexts)].decapsulated = 0
              /\ pc = "idle"
        /\ CountOp(calls, "decapsulate") > 0 => IsOk(result)

\* C6 witness: the outer POST was issued after a successful encapsulate and
\* failed at network level.
C6_Witness ==
    /\ Posting
    /\ calls = << Ev("encapsulate", 1), Ev("POST", 0), Ev("response", 0) >>
    /\ result = Err("TransportError")

C8_MalformedOuterHeader ==
    (/\ Posting
     /\ Malformed(args.outer_headers)
     /\ args.fate = "fine"
     /\ CountEv(calls, Ev("encapsulate", 1)) > 0) =>
        /\ pc = "idle"
        /\ result = Err("InvalidHeaderSyntax")
        /\ sessions[self].via # "kms"
        /\ CountOp(calls, "POST") = 0

\* C8 failing state: the session came from the KMS, encapsulate succeeded, and
\* the call aborted on the header without ':' mixed with a well-formed one.
C8_Witness ==
    /\ Posting
    /\ args.outer_headers = Some(<< "Authorization: Bearer abc", "NoColonHere" >>)
    /\ sessions[self].via = "kms"
    /\ calls = << Ev("encapsulate", 1) >>
    /\ pc = "aborted"
    /\ IsPanic(result)

(***************************************************************************)
(* The claim about the multipart request builder, under SpecMultipart.     *)
(***************************************************************************)
\* where the Content-Length header line starts in the message written so far, 0 if nowhere
ContentLengthAt == FindSub(request, "\r\nContent-Length: ", 1)

\* the number the Content-Length header of the message announces
DeclaredLength ==
    LET from == ContentLengthAt + Len("\r\nContent-Length: ")
        to == FindSub(request, "\r\n", from)
    IN  ParseDecimal(SubSeq(request, from, to - 1), 1, 0)

\* the bytes of the message after its first blank line
AfterBlankLine ==
    LET at == FindSub(request, "\r\n\r\n", 1)
    IN  SubSeq(request, at + 4, Len(request))

\* C9: in every request create_multipart_request returns, the number in the
\* Content-Length header equals the number of bytes after the blank line, and
\* the request is what the one-piece definition of the builder gives; the
\* header is written only once the body exists: it is absent from the message
\* until then, and when it is written it announces the length of that body.
C9_ContentLength ==
    op = "create_multipart_request" =>
        /\ pc \in {"create_body", "append_headers"} => ContentLengthAt = 0
        /\ pc = "create_body" => body = None
        /\ pc = "append_body" =>
              /\ IsSome(body)
              /\ ContentLengthAt > 0
              /\ DeclaredLength = Len(Unwrap(body))
              /\ AfterBlankLine = ""
        /\ IsOk(result) =>
              /\ result.val = request
              /\ ContentLengthAt > 0
              /\ FindSub(request, "\r\n\r\n", 1) > ContentLengthAt
              /\ DeclaredLength = Len(AfterBlankLine)
              /\ result = IF program = "lib"
                          THEN create_multipart_request(args.target_path, args.headers,
                                   args.data, args.form_fields, args.boundary)
                          ELSE bin_create_multipart_request(args.target_path, args.headers,
                                   args.form_fields)

\* C9 witness: a request with body text, a plain field and a file field has
\* been returned, and its body is not empty.
C9_Witness ==
    /\ op = "create_multipart_request"
    /\ IsOk(result)
    /\ args.data = Some("hi")
    /\ args.form_fields = Some(<< "name=value", "file=@img.png" >>)
    /\ DeclaredLength > 100
    /\ DeclaredLength = Len(AfterBlankLine)

(***************************************************************************)
(* The claim about the choice of the provider path, under SpecBin.         *)
(***************************************************************************)
\* the caller supplied the KMS parameters: the URL and the certificate
KmsSupplied == IsSome(builder.kms_url) /\ IsSome(builder.kms_cert)

\* C10: once the provider path is chosen, it is the KMS path exactly when the
\* KMS parameters were supplied and the static path otherwise, never both; a
\* request made on the static path comes from a static config that was
\* supplied; and with no static config and no KMS parameters the provider has
\* returned the error value MissingConfiguration - the process has not
\* aborted - and no GET to the KMS and no outer POST was made.
C10_PathSelection ==
    path # "none" =>
        /\ path = "kms" <=> KmsSupplied
        /\ path = "static" <=> ~KmsSupplied
        /\ (path = "static" /\ sessions # << >>) =>
              /\ IsSome(builder.config)
              /\ sessions[1].via = "static"
        /\ (~KmsSupplied /\ builder.config = None) =>
              /\ pc # "aborted"
              /\ result = Err("MissingConfiguration")
              /\ sessions = << >>
              /\ Gets = 0
              /\ CountOp(calls, "POST") = 0

\* C10 failing state: the binary was run with neither a static config nor KMS
\* parameters, its request buffer was built, and it aborted in
\* create_request_from_encoded_config_list.
C10_Witness ==
    /\ program = "bin"
    /\ op = "main"
    /\ builder = NoBuilder
    /\ IsOk(args.request_buf)
    /\ path = "static"
    /\ pc = "aborted"
    /\ result = Panic("Config expected.")

\* the names of a header map, and the values a map holds for a name
HeaderNames(headers) == { headers[i][1] : i \in 1..Len(headers) }
ValuesOf(headers, name) ==
    IF \E i \in 1..Len(headers) : headers[i][1] = name
    THEN headers[CHOOSE i \in 1..Len(headers) : headers[i][1] = name][2]
    ELSE << >>

\* decapsulate_response returned its wrapper
Wrapped == op = "decapsulate_response" /\ pc = "streaming" /\ IsOk(result)

\* C11: the wrapper decapsulate_response returns carries the status of the
\* outer response and, for every header name, the same sequence of values as
\* the outer response, every value of a name that occurs more than once included.
C11_StatusAndHeadersPreserved ==
    Wrapped =>
        /\ result.val.status = upstream.status
        /\ \A name \in HeaderNames(upstream.headers) \cup HeaderNames(result.val.headers) :
               ValuesOf(result.val.headers, name) = ValuesOf(upstream.headers, name)

\* the outer response had two set-cookie values and the wrapper has the first only
C11_Witness ==
    /\ Wrapped
    /\ result.val.status = upstream.status
    /\ ValuesOf(upstream.headers, "set-cookie") = << "a=1", "b=2" >>
    /\ ValuesOf(result.val.headers, "set-cookie") = << "a=1" >>
    /\ ValuesOf(result.val.headers, "content-type") = << "message/ohttp-chunked-res" >>

\* C12: a poll that meets neither 200 nor 202 ends get_kms_config at once: no
\* response or a 4xx/5xx status gives KmsRequestError, any other status gives
\* KmsUnexpectedStatus with the code; on the first poll and after 202s alike,
\* the failing GET is the last call, with no further GET and no sleep after it.
C12_TerminalOutcomes ==
    (OnKmsPath /\ answer # NoAnswer /\ answer.status \notin {200, 202}) =>
        /\ pc = "idle"
        /\ result = IF answer.status = 0 \/ answer.status \in 400..599
                    THEN Err("KmsRequestError")
                    ELSE [kind |-> "Err", err |-> "KmsUnexpectedStatus", code |-> answer.status]
        /\ PollPattern(NotReady, answer.status)
        /\ Len(calls) = 2 * NotReady + 2
        /\ Gets = NotReady + 1
        /\ Sleeps = NotReady

\* two 202s, then 204: KmsUnexpectedStatus(204) after three GETs and two sleeps
C12_Witness ==
    /\ OnKmsPath
    /\ answer.status = 204
    /\ NotReady = 2
    /\ Gets = 3
    /\ result = [kind |-> "Err", err |-> "KmsUnexpectedStatus", code |-> 204]

\* C13: in the standalone binary the Mode handed to write_bhttp is
\* IndeterminateLength exactly when the caller chose the indeterminate option,
\* and KnownLength otherwise.
C13_FramingMode ==
    (program = "bin" /\ op = "main" /\ IsOk(args.request_buf)) =>
        /\ args.request_buf.val.mode \in { "KnownLength", "IndeterminateLength" }
        /\ args.request_buf.val.mode = "IndeterminateLength" <=> args.indeterminate

\* the indeterminate option was chosen and the request was written known-length
C13_Witness ==
    /\ program = "bin"
    /\ op = "main"
    /\ args.indeterminate
    /\ IsOk(args.request_buf)
    /\ args.request_buf.val.mode = "KnownLength"

RECURSIVE FirstTrouble(_, _)
\* the first field from i on that names a file which cannot be opened or whose
\* type cannot be inferred; 0 when there is none
FirstTrouble(fields, i) ==
    IF i > Len(fields) THEN 0
    ELSE LET value == Unwrap(split_once(fields[i], "="))[2]
             file == File_open(SubSeq(value, 2, Len(value)))
         IN  IF starts_with(value, "@") /\ (IsErr(file) \/ ~IsSome(infer_get(file.val)))
             THEN i
             ELSE FirstTrouble(fields, i + 1)

\* the file named by field i
FileOfField(fields, i) ==
    LET value == Unwrap(split_once(fields[i], "="))[2]
    IN  File_open(SubSeq(value, 2, Len(value)))

\* post was called with form fields that all have the form name=value
PostWithFields ==
    /\ op = "post"
    /\ IsSome(args.form_fields)
    /\ \A i \in 1..Len(Unwrap(args.form_fields)) :
           IsSome(split_once(Unwrap(args.form_fields)[i], "="))

\* C14: when a file field of post names a path that cannot be opened the call
\* has returned the error value FileAccessError, when it names a file whose
\* type cannot be inferred it has returned the error value FileTypeError, and
\* in both cases nothing was encapsulated and no outer POST was made.
C14_FileFieldErrors ==
    (PostWithFields /\ FirstTrouble(Unwrap(args.form_fields), 1) > 0) =>
        LET fields == Unwrap(args.form_fields)
            i == FirstTrouble(fields, 1)
        IN  /\ pc = "idle"
            /\ result = IF IsErr(FileOfField(fields, i)) THEN Err("FileAccessError")
                        ELSE Err("FileTypeError")
            /\ CountOp(calls, "encapsulate") = 0
            /\ CountOp(calls, "POST") = 0

\* post with a text file of no known signature: the process aborted in
\* create_multipart_body, before any encapsulation
C14_Witness ==
    /\ op = "post"
    /\ args.form_fields = Some(<< "name=value", "file=@notes.txt" >>)
    /\ pc = "aborted"
    /\ result = Panic("file type is unknown")
    /\ CountOp(calls, "encapsulate") = 0
    /\ CountOp(calls, "POST") = 0

\* the number of places where pat occurs in s
CountSub(s, pat) ==
    Cardinality({ k \in 1..(Len(s) - Len(pat) + 1) : SubSeq(s, k, k + Len(pat) - 1) = pat })

\* what names the part of a form field in the body: name="..." of a plain
\* field, filename="..." of a file field
PartMarker(field) ==
    LET nv == Unwrap(split_once(field, "="))
    IN  IF starts_with(nv[2], "@")
        THEN "filename=\"" \o SubSeq(nv[2], 2, Len(nv[2])) \o "\""
        ELSE "name=\"" \o nv[1] \o "\""

\* the list a caller passed, empty when it passed none
ListOf(option) == IF IsSome(option) THEN Unwrap(option) ELSE << >>

\* C15: when post has sent its outer POST, the headers of the inner request
\* start with the caller's headers in the caller's order (followed by the two
\* headers of the builder only), the body has one part per caller's form field
\* and the parts come in the order of the caller's list, and the outer POST
\* carries after its content-type the caller's outer headers in the caller's
\* order: nothing is reordered, dropped or duplicated.
C15_RequestOrder ==
    (op = "post" /\ pc = "sending") =>
        LET message == outer.body.sealed.message
            hs == ListOf(args.headers)
            fs == ListOf(args.form_fields)
            os == ListOf(args.outer_headers)
        IN  /\ Len(message.header) = Len(hs) + 2
            /\ \A i \in 1..Len(hs) :
                   message.header[i][1] \o ": " \o message.header[i][2] = hs[i]
            /\ message.header[Len(hs) + 1][1] = "Content-Type"
            /\ message.header[Len(hs) + 2][1] = "Content-Length"
            /\ CountSub(message.content, "Content-Disposition: form-data;") = Len(fs)
            /\ \A i \in 1..Len(fs) : FindSub(message.content, PartMarker(fs[i]), 1) > 0
            /\ \A i \in 1..(Len(fs) - 1) :
                   FindSub(message.content, PartMarker(fs[i]), 1)
                       < FindSub(message.content, PartMarker(fs[i + 1]), 1)
            /\ Len(outer.headers) = Len(os) + 1
            /\ outer.headers[1][1] = "content-type"
            /\ \A i \in 1..Len(os) :
                   outer.headers[i + 1][1] \o ":" \o outer.headers[i + 1][2] = os[i]

\* a post with two headers, two form fields and two outer headers was sent
C15_Witness ==
    /\ op = "post"
    /\ pc = "sending"
    /\ args.headers = Some(<< "X-Trace: 1", "Accept: application/json" >>)
    /\ args.form_fields = Some(<< "name=value", "file=@img.png" >>)
    /\ args.outer_headers = Some(<< "X-Trace: 1", "Authorization: Bearer abc" >>)
    /\ outer.headers[2] = << "X-Trace", " 1" >>
    /\ outer.body.sealed.message.header[2] = << "Accept", "application/json" >>

\* s is hex text: an even number of characters, each a hex digit of either case
ValidHex(s) ==
    /\ Len(s) % 2 = 0
    /\ \A i \in 1..Len(s) :
           \E k \in 1..16 : SubSeq(s, i, i) \in { SubSeq(HexDigits, k, k),
                                                   SubSeq(HexDigitsUpper, k, k) }

RECURSIVE ToLower(_)
\* s with its hex letters in lower case
ToLower(s) ==
    IF s = "" THEN ""
    ELSE LET c == SubSeq(s, 1, 1)
             k == IndexIn(c, HexDigitsUpper, 1)
         IN  (IF k >= 0 THEN SubSeq(HexDigits, k + 1, k + 1) ELSE c)
                 \o ToLower(SubSeq(s, 2, Len(s)))

\* C16 as stated: decoding a valid hex string and encoding the bytes again
\* yields the same string; decoding a string with a non-hex character or an
\* odd number of digits fails with InvalidEncoding and yields no HexArg.
C16_HexIdentity ==
    /\ (hexarg.parsed # NoResult /\ ValidHex(hexarg.s)) => IsOk(hexarg.parsed)
    /\ (hexarg.parsed # NoResult /\ ~ValidHex(hexarg.s)) =>
           hexarg.parsed = Err("InvalidEncoding")
    /\ IsSome(hexarg.encoded) => Unwrap(hexarg.encoded) = hexarg.s

\* C16 amended: decoding a valid hex string and encoding the bytes again
\* yields the string with its letters in lower case, which is the string
\* itself when it has no upper-case digit; decoding a string with a non-hex
\* character or an odd number of digits fails with InvalidEncoding and
\* yields no HexArg.
C16_HexRoundTrip ==
    /\ (hexarg.parsed # NoResult /\ ValidHex(hexarg.s)) => IsOk(hexarg.parsed)
    /\ (hexarg.parsed # NoResult /\ ~ValidHex(hexarg.s)) =>
           /\ hexarg.parsed = Err("InvalidEncoding")
           /\ hexarg.encoded = None
    /\ IsSome(hexarg.encoded) =>
           /\ ValidHex(hexarg.s)
           /\ Unwrap(hexarg.encoded) = ToLower(hexarg.s)
           /\ hexarg.s = ToLower(hexarg.s) => Unwrap(hexarg.encoded) = hexarg.s

\* "0F9a" was decoded to two bytes and encoded again as "0f9a"
C16_Witness ==
    /\ hexarg.s = "0F9a"
    /\ hexarg.parsed = Ok(<< 15, 154 >>)
    /\ hexarg.encoded = Some("0f9a")


\* main of a command-line program has returned Ok(()) after a response of
\* success status whose body was decapsulated
CliSucceeded ==
    /\ program \in { "bin", "cli" }
    /\ pc = "exited"
    /\ IsOk(result)
    /\ CountEv(calls, Ev("response", 200)) = 1
    /\ CountOp(calls, "decapsulate") = 1

\* C17: when ohttp-client-cli ends in success, the body went to the file named
\* by the output option if the option was given (and nothing of it to standard
\* output), and to standard output, no file being made, if it was omitted
C17_OutputSink ==
    (program = "cli" /\ CliSucceeded) =>
        IF IsSome(args.output)
        THEN IsSome(written.file) /\ written.stdout = ""
        ELSE written.file = None /\ written.stdout = cli_print_chunks("", plain, 1).stdout

\* C17: ohttp-client-cli was given `-o out.bin`, read a body of two chunks and
\* returned Ok(()): the chunks are on standard output and no file was made
C17_Witness ==
    /\ program = "cli"
    /\ CliSucceeded
    /\ args.output = Some("out.bin")
    /\ plain = << Ok("chunk"), Ok("chunk") >>
    /\ written.file = None
    /\ written.stdout = "chunk\nchunk\n"

\* `main() -> Res<()>` returned Ok(()): the process exits with status 0; an
\* Err returned by main or a panic makes the exit status non-zero
ExitSuccess == pc = "exited" /\ IsOk(result)

\* every stage of the request went through: the gateway answered with a
\* success status and the body was handed to decapsulation
AllStagesPassed ==
    /\ CountEv(calls, Ev("response", 200)) = 1
    /\ CountOp(calls, "decapsulate") = 1

\* C18: the standalone binary exits with success only when no stage of the
\* request failed and the decapsulated stream yielded no error item
C18_FailureExit ==
    (program = "bin" /\ ExitSuccess) =>
        /\ AllStagesPassed
        /\ \A i \in DOMAIN plain : IsOk(plain[i])

\* C18: the binary has exited with success although the decapsulated stream
\* yielded an error item after a chunk
C18_Witness ==
    /\ program = "bin"
    /\ ExitSuccess
    /\ AllStagesPassed
    /\ plain = << Ok("chunk"), Err("DecapsulationError") >>

\* the place of a call among the steps of create_request_from_kms_config: the
\* certificate is read, get_kms_config polls, then from_kms_config verifies,
\* decodes and builds
StepRank(e) ==
    IF e.op = "read_cert" THEN 1
    ELSE IF e.op \in { "GET", "sleep" } THEN 2
    ELSE IF e.op = "verify" THEN 3
    ELSE IF e.op = "hex_decode" THEN 4
    ELSE IF e.op = "from_encoded_config" THEN 5
    ELSE 0

LastCall == calls[Len(calls)]

IsChunk(item) == IsOk(item) /\ IsSome(item.val)

\* the position of the first item of the outer body that is no chunk, a read
\* error or the end of the body
FirstStop(chunks) ==
    LET stops == { i \in 1..Len(chunks) : ~IsChunk(chunks[i]) }
    IN  IF stops = {} THEN Len(chunks) + 1 ELSE CHOOSE i \in stops : \A j \in stops : i <= j

\* C20: the stream fed to decapsulation holds the outer chunks before the
\* first read error or end of the body, in their order and as Ok items only;
\* it has ended exactly when that first stop was pulled, and the outer
\* response is never pulled past it
C20_StreamTermination ==
    pc = "streaming" =>
        /\ \A i \in DOMAIN fed.items :
              /\ IsOk(fed.items[i])
              /\ i < FirstStop(upstream.chunks)
              /\ fed.items[i] = Ok(Unwrap(upstream.chunks[i].val))
        /\ upstream.pulls = Len(fed.items) + (IF fed.ended THEN 1 ELSE 0)
        /\ upstream.pulls <= FirstStop(upstream.chunks)
        /\ fed.ended <=> upstream.pulls = FirstStop(upstream.chunks)

\* C20 witness: the outer body yielded a chunk and then a read error; the
\* stream fed to decapsulation holds the chunk and has ended
C20_Witness ==
    /\ pc = "streaming"
    /\ upstream.chunks = << Ok(Some("c2")), Err("read error") >>
    /\ upstream.pulls = 2
    /\ fed = [items |-> << Ok("c2") >>, ended |-> TRUE]

\* the parts of the body of a request: the free-form body text when there is
\* some, and one part for every form field
PartsOf(data, form_fields) ==
    Len(ListOf(form_fields)) + (IF IsSome(data) /\ Unwrap(data) # "" THEN 1 ELSE 0)

\* the opening delimiter line and the closing delimiter of a boundary
OpeningLine(boundary) == "--" \o boundary \o "\r\n"
ClosingDelimiter(boundary) == "--" \o boundary \o "--"

\* C21: a body that create_multipart_body has made of at least one part holds
\* one opening delimiter line for every part, and the closing delimiter once,
\* as its last line
C21_BoundaryPlacement ==
    (/\ op = "create_multipart_request"
     /\ pc = "append_headers"
     /\ PartsOf(args.data, args.form_fields) > 0) =>
        LET b == Unwrap(body)
            closing == ClosingDelimiter(args.boundary) \o "\r\n"
        IN  /\ CountSub(b, OpeningLine(args.boundary)) = PartsOf(args.data, args.form_fields)
            /\ CountSub(b, ClosingDelimiter(args.boundary)) = 1
            /\ Len(b) >= Len(closing)
            /\ SubSeq(b, Len(b) - Len(closing) + 1, Len(b)) = closing

\* C21: the library made the body of body text, a plain field and a file
\* field: it starts with the bare text, has one opening line for three parts
\* and the closing delimiter twice
C21_Witness ==
    /\ op = "create_multipart_request"
    /\ pc = "append_headers"
    /\ program = "lib"
    /\ args.data = Some("hi")
    /\ args.form_fields = Some(<< "name=value", "file=@img.png" >>)
    /\ starts_with(Unwrap(body), "hi\r\nContent-Disposition")
    /\ CountSub(Unwrap(body), OpeningLine(args.boundary)) = 1
    /\ CountSub(Unwrap(body), ClosingDelimiter(args.boundary)) = 2

\* the binary request an encapsulated request carries
Sealed(enc_request) == enc_request.sealed.message

\* C22: post_raw on bytes that are no HTTP message has returned
\* MalformedMessage without a call of encapsulate or an outer POST; on a
\* message it makes the calls of post in the order of post, and the request it
\* encapsulated has the request line, the header lines and the content of the
\* caller's bytes and nothing more
C22_PostRawDirect ==
    op = "post_raw" =>
        LET raw == args.http_request
            blank == FindSub(raw, "\r\n\r\n", 1)
        IN  /\ IsErr(read_http(raw)) =>
                  /\ pc = "idle"
                  /\ result = Err("MalformedMessage")
                  /\ calls = << >>
                  /\ sessions[self].encapsulated = 0
            /\ IsOk(read_http(raw)) =>
                  /\ calls # << >>
                  /\ CallsPrefixOf(<< "encapsulate", "POST", "response", "decapsulate" >>)
                  /\ (pc = "idle" /\ IsOk(result)) => Len(calls) = 4
            /\ CountOp(calls, "POST") = 1 =>
                  /\ outer.body.sealed.mode = "KnownLength"
                  /\ starts_with(raw, Sealed(outer.body).method \o " "
                                          \o Sealed(outer.body).target \o " ")
                  /\ Len(Sealed(outer.body).header) = CountSub(SubSeq(raw, 1, blank + 1), "\r\n") - 1
                  /\ \A i \in 1..Len(Sealed(outer.body).header) :
                        CountSub(raw, "\r\n" \o Sealed(outer.body).header[i][1] \o ":") = 1
                  /\ Sealed(outer.body).content = SubSeq(raw, blank + 4, Len(raw))

\* C22 witness: post_raw was handed bytes that are no HTTP message on a live
\* session that came from the KMS, and has returned
C22_Witness ==
    /\ op = "post_raw"
    /\ args.http_request = "not http"
    /\ result = Err("MalformedMessage")
    /\ sessions[self].via = "kms"
    /\ calls = << >>

\* the answers of 202 that came before the last answer of this call
NotReadyBefore == IF answer.status = 202 THEN NotReady - 1 ELSE NotReady

\* what get_kms_config returns on the last answer of this call when its
\* counter has counted the answers of 202 of this call and nothing else
FreshOutcome ==
    get_kms_config_step(answer, IF NotReadyBefore > max_retries THEN max_retries
                                ELSE NotReadyBefore)

\* C23: in every call of the provider, whatever earlier calls met, the retry
\* counter equals the number of 202 answers of this call (at most max_retries),
\* the call times out exactly at answer max_retries + 1 of 202, and what
\* get_kms_config returned is what it returns on the answers of this call alone
C23_ProviderStateless ==
    (OnKmsPath /\ Gets > 0) =>
        /\ NotReady <= max_retries + 1
        /\ retries = (IF NotReady > max_retries THEN max_retries ELSE NotReady)
        /\ result = Err("KmsTimeout") <=> NotReady = max_retries + 1
        /\ pc = "polling" <=> FreshOutcome.next = "again"
        /\ pc # "polling" =>
              IF IsOk(FreshOutcome.res) THEN kms_config = FreshOutcome.res.val
              ELSE result = FreshOutcome.res

\* C23 witness: an earlier call of the provider was answered 202; this call
\* was answered 202 max_retries times, then 200, and has built a session
C23_Witness ==
    /\ waited
    /\ OnKmsPath
    /\ pc = "idle"
    /\ IsOk(result)
    /\ NotReady = max_retries
    /\ retries = max_retries

\* the entry holds well-formed hex of a configuration from_encoded_config accepts
SupportedEntry(entry) ==
    /\ IsOk(HexDecode(entry.key_config))
    /\ IsOk(from_encoded_config(HexDecode(entry.key_config).val))

\* the position of the first supported entry of the list, 0 when there is none
FirstSupported(entries) ==
    LET ok == { i \in 1..Len(entries) : SupportedEntry(entries[i]) }
    IN  IF ok = {} THEN 0 ELSE CHOOSE i \in ok : \A j \in ok : i <= j

\* C24: when from_kms_config has run on a list whose receipts all verify and
\* that holds a supported configuration, build has returned the session made
\* from the first supported configuration of the list
C24_FirstSupported ==
    (/\ FromKmsConfigDone
     /\ kms_config.json
     /\ \A i \in 1..Len(kms_config.entries) : IsOk(verify(kms_config.entries[i].receipt, cert))
     /\ FirstSupported(kms_config.entries) > 0) =>
        /\ IsOk(result)
        /\ HexDecode(kms_config.entries[FirstSupported(kms_config.entries)].key_config)
               = Ok(<< result.val.key >>)

\* C24: the list holds a supported configuration followed by an unsupported
\* one, both with valid receipts, and build has returned the error of the last
C24_Witness ==
    /\ FromKmsConfigDone
    /\ cert = "CA-A"
    /\ kms_config.entries = << [key_config |-> "0a", receipt |-> "CA-A"],
                               [key_config |-> "ff", receipt |-> "CA-A"] >>
    /\ result = Err("UnsupportedConfiguration")
    /\ sessions = << >>

\* C25: in build of the library, with kms_url and kms_cert both set the KMS
\* path is taken, the static config is never read, and a session built has the
\* key of the KMS entry; a failure of the KMS path is the result of build.
\* With one of the two missing the static path is taken without reading the
\* certificate or sending a GET, and build has returned what the static config
\* gives, MissingConfiguration when there is none
C25_BuildPrecedence ==
    (program = "lib" /\ op = "build") =>
        /\ KmsSupplied =>
              /\ path = "kms"
              /\ CountOp(calls, "from_encoded_config_list") = 0
              /\ calls[1] = Ev("read_cert", 0)
              /\ (pc = "idle" /\ IsOk(result)) =>
                    /\ FromKmsConfigDone
                    /\ kms_config.entries # << >>
                    /\ HexDecode(LastEntry.key_config) = Ok(<< result.val.key >>)
                    /\ sessions[Len(sessions)].via = "kms"
              /\ (pc = "idle" /\ ~FromKmsConfigDone) => IsErr(result)
        /\ ~KmsSupplied =>
              /\ path = "static"
              /\ pc = "idle"
              /\ Gets = 0
              /\ CountOp(calls, "read_cert") = 0
              /\ result = create_request_from_encoded_config_list(builder.config)
              /\ builder.config = None => result = Err("MissingConfiguration")
              /\ IsOk(result) => sessions[Len(sessions)].via = "static"

\* C25 witness: build was given the KMS parameters and a static config that
\* holds a supported configuration; the KMS answered 500 and build has
\* returned the error of the KMS path, no session made
C25_Witness ==
    /\ program = "lib"
    /\ op = "build"
    /\ KmsSupplied
    /\ builder.config = Some(<< 255, 11 >>)
    /\ IsOk(create_request_from_encoded_config_list(builder.config))
    /\ answer.status = 500
    /\ pc = "idle"
    /\ result = Err("KmsRequestError")
    /\ sessions = << >>

\* C26: no state of the provider is a panic: whatever the KMS answered, the
\* call is still polling, or get_kms_config has returned a body, or build has
\* returned a value
C26_NoPanic ==
    (program = "lib" /\ op = "build") =>
        /\ pc # "aborted"
        /\ ~IsPanic(result)
        /\ (path = "kms" /\ Gets > 0 /\ pc = "idle") => (IsOk(result) \/ IsErr(result))

\* C26: after one answer of 202 the KMS answered 200 with an empty body that
\* could be read, and the process has aborted in get_kms_config
C26_Witness ==
    /\ program = "lib"
    /\ OnKmsPath
    /\ calls = << Ev("read_cert", 0), Ev("GET", 202), Ev("sleep", 1), Ev("GET", 200) >>
    /\ answer = [status |-> 200, readable |-> TRUE, body |-> TextBody("")]
    /\ pc = "aborted"
    /\ result = Panic("assertion failed: !body.is_empty()")
    /\ sessions = << >>

\* the calls of chunk that have returned
ChunkCalls == { i \in DOMAIN py_calls : py_calls[i].method = "chunk" /\ py_calls[i].pc = "done" }

\* the item of the body at position k, as Response::chunk yields it
ItemAt(k) == IF k <= Len(py_response.chunks) THEN py_response.chunks[k] ELSE Ok(None)

\* at most one call holds the guard of the Response, and it is the one that locked it
MutualExclusion ==
    \A i \in DOMAIN py_calls :
        py_calls[i].pc = "locked" => guard = i

\* the calls of chunk took the positions 1..pulls of the body, each position by
\* one call, and each returned the chunk at its position and no other
ExactlyOnce ==
    /\ \A i, j \in ChunkCalls : py_calls[i].at = py_calls[j].at => i = j
    /\ { py_calls[i].at : i \in ChunkCalls } = 1..py_response.pulls
    /\ \A i \in ChunkCalls : py_calls[i].ret = py_chunk(ItemAt(py_calls[i].at))

\* after a call of chunk returned None every call that read the body later returned None
NoneIsFinal ==
    \A i, j \in ChunkCalls :
        (py_calls[i].at < py_calls[j].at /\ py_calls[i].ret = None) => py_calls[j].ret = None

\* C27: in every interleaving of the calls of chunk, status and headers on one
\* OhttpResponse the Response is held by one call at a time, every chunk of the
\* body is returned by exactly one call of chunk, none twice and none skipped,
\* and once a call of chunk has returned None (end of the stream or an error)
\* every later call of chunk returns None
C27_ResponseStream ==
    program = "py" => (MutualExclusion /\ ExactlyOnce /\ NoneIsFinal)

\* C27: the body yields an error and then a chunk; the first call of chunk
\* returned None for the error and the second returned the chunk
C27_Witness ==
    /\ program = "py"
    /\ py_response.chunks = << Err("read error"), Ok(Some("c1")) >>
    /\ Len(py_calls) = 2
    /\ py_calls[1] = [method |-> "chunk", pc |-> "done", at |-> 1, ret |-> None]
    /\ py_calls[2] = [method |-> "chunk", pc |-> "done", at |-> 2, ret |-> Some("c1")]
    /\ guard = 0

\* the futures of the binding that hold a client, and those that hold a response context
WithClient == { t \in DOMAIN py_posts : py_posts[t].session # 0 }
WithContext == { t \in DOMAIN py_posts : py_posts[t].context # 0 }

\* C28: every call of post or post_raw of the binding, alone or concurrent
\* with others on the same OhttpClient, has made its own provider run (its own
\* GET and its own verification of the receipt) before it holds a session; the
\* session is one no other call holds and encapsulates at most once; and a
\* response context belongs to one call, to its session, and is decapsulated
\* at most once
C28_SessionsNotShared ==
    program = "py" =>
        /\ \A t \in WithClient :
              /\ py_posts[t].polled
              /\ py_posts[t].verified
              /\ py_posts[t].session \in DOMAIN sessions
              /\ sessions[py_posts[t].session].via = "kms"
        /\ \A t, u \in WithClient : py_posts[t].session = py_posts[u].session => t = u
        /\ Len(sessions) = Cardinality(WithClient)
        /\ \A s \in DOMAIN sessions : sessions[s].encapsulated <= 1
        /\ \A t \in WithContext :
              /\ py_posts[t].context \in DOMAIN contexts
              /\ contexts[py_posts[t].context].session = py_posts[t].session
        /\ \A t, u \in WithContext : py_posts[t].context = py_posts[u].context => t = u
        /\ Len(contexts) = Cardinality(WithContext)
        /\ \A c \in DOMAIN contexts : contexts[c].decapsulated <= 1

\* C28: a call of post and a call of post_raw ran concurrently on one
\* OhttpClient: the second was made before the first had its client and got
\* its own first, each polled the KMS itself, and each returned a response of
\* its own session and its own context
C28_Witness ==
    /\ program = "py"
    /\ Len(py_posts) = 2
    /\ py_posts[1].method = "post" /\ py_posts[2].method = "post_raw"
    /\ py_posts[1].pc = "done" /\ py_posts[2].pc = "done"
    /\ IsOk(py_posts[1].ret) /\ IsOk(py_posts[2].ret)
    /\ py_posts[1].polled /\ py_posts[2].polled
    /\ py_posts[1].verified /\ py_posts[2].verified
    /\ py_posts[1].session = 2 /\ py_posts[2].session = 1
    /\ py_posts[1].context = 1 /\ py_posts[2].context = 2
    /\ sessions[1].state = "consumed" /\ sessions[2].state = "consumed"
    /\ contexts[1].decapsulated = 1 /\ contexts[2].decapsulated = 1

\* a step that is a call of post or post_raw of the library
PostCalled == program = "lib" /\ pc = "idle" /\ op' \in { "post", "post_raw" }

\* the call is made on a session not used before and leaves it consumed,
\* whatever it returned; the other sessions are as they were
CallConsumes ==
    /\ self' \in DOMAIN sessions
    /\ sessions[self'].state = "live"
    /\ sessions[self'].encapsulated = 0
    /\ DOMAIN sessions' = DOMAIN sessions
    /\ sessions'[self'].state = "consumed"
    /\ sessions'[self'].key = sessions[self'].key
    /\ \A s \in DOMAIN sessions : s # self' => sessions'[s] = sessions[s]

\* a session that is live after a step was live before it, or is the one a
\* step of build just made
LiveOnlyByBuild ==
    \A s \in DOMAIN sessions' :
        sessions'[s].state = "live" =>
            \/ s \in DOMAIN sessions /\ sessions[s].state = "live"
            \/ s \notin DOMAIN sessions /\ op' = "build" /\ s = Len(sessions) + 1

\* C29: a session is consumed by its first call of post or post_raw whatever
\* the outcome (an error of the request builder or of the converter, of
\* encapsulate, of the transport, or a response): the call is only made on a
\* session not used before, the session is consumed after it, and no step
\* makes a consumed session live again; a live session comes from build only
C29_ConsumedWhateverOutcome ==
    [][(PostCalled => CallConsumes) /\ (program = "lib" => LiveOnlyByBuild)]_vars

\* C29: the first session was handed to a call that failed before
\* encapsulation and is consumed without having encapsulated; build was called
\* again, and the call on the second session has sent its request
C29_Witness ==
    /\ program = "lib"
    /\ Len(sessions) = 2
    /\ sessions[1].state = "consumed" /\ sessions[1].encapsulated = 0
    /\ sessions[2].state = "consumed" /\ sessions[2].encapsulated = 1
    /\ op = "post" /\ self = 2 /\ pc = "sending"
    /\ Len(contexts) = 1 /\ contexts[1].session = 2

\* the standalone binary got a response to its outer POST whose status is no success
BinNonSuccess ==
    /\ program = "bin"
    /\ \E i \in DOMAIN calls :
          /\ calls[i].op = "response"
          /\ calls[i].arg # 0
          /\ ~(calls[i].arg >= 200 /\ calls[i].arg <= 299)

\* C30: in the standalone binary a response whose status is no success is a
\* hard failure: post_request has returned an error, main has returned it,
\* handle_response was not invoked (no sink was created, nothing was
\* decapsulated) and nothing was written
C30_NonSuccessIsFailure ==
    BinNonSuccess =>
        /\ pc = "exited"
        /\ IsErr(result)
        /\ CountOp(calls, "decapsulate") = 0
        /\ \A c \in DOMAIN contexts : contexts[c].decapsulated = 0
        /\ written = NoOutput
        /\ plain = << >>

\* C30: the gateway answered 404 to a run that was to write to out.bin: main
\* has returned the error of post_request and no file was created
C30_Witness ==
    /\ program = "bin"
    /\ calls # << >>
    /\ LastCall = Ev("response", 404)
    /\ args.output = Some("out.bin")
    /\ pc = "exited"
    /\ result = Err("HttpStatusError")
    /\ written = NoOutput
    /\ Len(contexts) = 1 /\ contexts[1].decapsulated = 0

RECURSIVE ConcatChunks(_, _)
\* the chunks of the decapsulated stream from item i on, one after the other
ConcatChunks(stream, i) ==
    IF i > Len(stream) THEN ""
    ELSE IF IsOk(stream[i]) THEN stream[i].val \o ConcatChunks(stream, i + 1)
    ELSE ConcatChunks(stream, i + 1)

\* the bytes in the sink of a command-line program: the file it made, or
\* standard output
SinkBytes == IF IsSome(written.file) THEN Unwrap(written.file) ELSE written.stdout

\* C31: when a command-line program has ended in success, the bytes in its
\* sink are the plaintext chunks of the decapsulated stream one after the
\* other, in order, with no byte added, dropped or altered, so that they do not
\* depend on how the body was split into chunks
C31_SinkIsConcatenation ==
    CliSucceeded => SinkBytes = ConcatChunks(plain, 1)

\* C31: the standalone binary wrote a body of two chunks to out.bin: the file
\* holds a line feed before each chunk
C31_Witness ==
    /\ program = "bin"
    /\ CliSucceeded
    /\ args.output = Some("out.bin")
    /\ plain = << Ok("chunk"), Ok("chunk") >>
    /\ ConcatChunks(plain, 1) = "chunkchunk"
    /\ written.file = Some("\nchunk\nchunk")

====
